---- MODULE Spec2Model ----
(***************************************************************************)
(* A model of factorio-spritter's sheet generation:                        *)
(*   image_util.rs         crop_images, dedup_empty_frames                 *)
(*   commands/spritesheet.rs  generate_spritesheet, generate_subframe_sheets*)
(*                                                                         *)
(* An RgbaImage is modelled by its width, its height and its alpha channel.*)
(* The alpha channel is kept sparsely: px is the set of <<x, y, alpha>>    *)
(* with alpha > 0, every pixel not listed has alpha 0.  Only the alpha     *)
(* channel is read by the code modelled here.                              *)
(*                                                                         *)
(* The f64 crop shift is kept as twice its value, an integer: the code     *)
(* only ever halves an integer, so 2 * shift is exact.                     *)
(***************************************************************************)
EXTENDS Integers, Sequences, FiniteSets, TLC

VARIABLES
    args,            \* SpritesheetArgs: the flags the modelled code reads
    loaded,          \* the frames as load_from_path returned them (line 204)
    images,          \* Vec<RgbaImage>: the frames, in order
    pc,              \* position in generate_spritesheet / in the function under test
    result,          \* "none" while running, then "ok", an error name or "panic"
    shift,           \* <<2 * shift_x, 2 * shift_y>>
    before,          \* the frames handed to the last crop_images call
    calls,           \* number of crop_images calls made so far
    frame_sequence,  \* Option<Vec<usize>>: <<>> for None, <<sequence>> for Some(sequence)
    sprite_width, sprite_height, sprite_count,
    max_cols_per_sheet, max_rows_per_sheet,
    max_per_sheet,   \* max_rows_per_sheet * max_cols_per_sheet (line 265)
    sheet_count,
    cols, rows,      \* the grid being grown for a single sheet
    sheet,           \* the tuple bound at line 332: sheet_width, sheet_height,
                     \* cols_per_sheet, rows_per_sheet, max_per_sheet
    sheets,          \* the canvases allocated: width, height and output id
    placed,          \* one entry per sprite blitted: sheet_idx, row, line, x, y
    frags_x, frags_y,
    frag_groups,     \* one entry per subframe: tx, ty, width, height, shift
    layers,          \* Box<[SubframeData]>: what generate_subframe_sheets returns
    saved,           \* the files written, in order: <<id, extension>>
    icon_res,        \* res of generate_mipmap_icon: the canvas and the levels blitted so far
    next_width, next_x,
    icon_idx,        \* idx of generate_mipmap_icon: the level its loop is at
    icon,            \* the strip handed to save_optimized_png, <<>> before
    histo,           \* save_sheets: the indices of the sheets added to the histogram
    palette,         \* save_sheets: <<>>, or <<p>> once the shared palette p is computed
    encoded,         \* save_sheets: the files written: sheet, path, palette used
    sources,         \* execute: the set of source directories, by name
    units,           \* execute: the state of generate_spritesheet on each source
    files,           \* execute: the paths written and the unit that wrote each
    logged           \* execute: the sources whose error was logged

cropv    == <<before, calls>>
measurev == <<sprite_width, sprite_height, sprite_count,
              max_cols_per_sheet, max_rows_per_sheet, max_per_sheet, sheet_count>>
layoutv  == <<cols, rows, sheet, sheets, placed>>
splitv   == <<frags_x, frags_y, frag_groups, layers>>
iconv    == <<icon_res, next_width, next_x, icon_idx, icon>>
savev    == <<histo, palette, encoded>>
execv    == <<sources, units, files, logged>>

vars == <<args, loaded, images, pc, result, shift, frame_sequence, saved,
          cropv, measurev, layoutv, splitv, iconv, savev, execv>>

----------------------------------------------------------------------------
(* Bounds of the model                                                     *)

MaxW == 3          \* largest frame width of the pixel-level inputs
MaxH == 2          \* largest frame height of the pixel-level inputs
MaxFrames == 2     \* most frames of a pixel-level frame set
MaxLit == 2        \* most pixels with alpha > 0 in a pixel-level frame set
MaxCalls == 2      \* crop_images is applied at most this many times in a row

Alphas == {1, 2}       \* alpha values of the lit pixels
AlphaLimits == {0, 1}  \* values of --crop-alpha

----------------------------------------------------------------------------
(* Program constants                                                       *)

\* u32::MAX is 4294967295, which is beyond TLC's integers.  The code uses it
\* only as the "no minimum yet" sentinel, compared against pixel coordinates:
\* what matters is that it is above every coordinate, which this value is.
u32_MAX == 2147483647
u32_MIN == 0

----------------------------------------------------------------------------
(* Helpers                                                                 *)

Min(S) == CHOOSE m \in S : \A n \in S : m <= n
Max(S) == CHOOSE m \in S : \A n \in S : m >= n

Image(w, h, px) == [width |-> w, height |-> h, px |-> px]

\* the alpha of pixel (x, y) of an image
Alpha(image, x, y) ==
    IF \E p \in image.px : p[1] = x /\ p[2] = y
    THEN (CHOOSE p \in image.px : p[1] = x /\ p[2] = y)[3]
    ELSE 0

\* imageops::crop_imm(image, x, y, width, height).to_image()
crop_imm(image, x, y, width, height) ==
    Image(width, height,
          { <<p[1] - x, p[2] - y, p[3]>> :
              p \in { q \in image.px : /\ q[1] >= x /\ q[1] < x + width
                                       /\ q[2] >= y /\ q[2] < y + height } })

----------------------------------------------------------------------------
(* image_util::crop_images                                                 *)

IsVisibleGe(a, alpha_limit) == a >= alpha_limit
\* pxl[3] > alpha_limit
IsVisible(a, alpha_limit) == a > alpha_limit

\* the x (y) coordinates of the pixels that pass the filter; the code sorts
\* the list and takes its first and last element: its minimum and maximum
VisibleX(image, alpha_limit) ==
    { p[1] : p \in { q \in image.px : IsVisible(q[3], alpha_limit) } }
VisibleY(image, alpha_limit) ==
    { p[2] : p \in { q \in image.px : IsVisible(q[3], alpha_limit) } }

NoBounds == [min_x |-> u32_MAX, min_y |-> u32_MAX, max_x |-> u32_MIN, max_y |-> u32_MIN]

MergeBoundsFirstOnly(b, x, y) ==
    IF b = NoBounds
    THEN [min_x |-> Min(x), min_y |-> Min(y), max_x |-> Max(x), max_y |-> Max(y)]
    ELSE b
\* the four updates of the running bounds by one image's local bounds
MergeBounds(b, x, y) ==
    [min_x |-> IF b.min_x > Min(x) THEN Min(x) ELSE b.min_x,
     max_x |-> IF b.max_x < Max(x) THEN Max(x) ELSE b.max_x,
     min_y |-> IF b.min_y > Min(y) THEN Min(y) ELSE b.min_y,
     max_y |-> IF b.max_y < Max(y) THEN Max(y) ELSE b.max_y]

\* the loop over the images, from image i on, with running bounds b
RECURSIVE ScanBounds(_, _, _, _, _, _)
ScanBounds(imgs, i, alpha_limit, raw_width, raw_height, b) ==
    IF i > Len(imgs) THEN [err |-> "none", b |-> b]
    ELSE IF imgs[i].width # raw_width \/ imgs[i].height # raw_height
    THEN [err |-> "NotSameSize", b |-> b]
    ELSE LET x == VisibleX(imgs[i], alpha_limit)
             y == VisibleY(imgs[i], alpha_limit)
         IN  IF x = {} \/ y = {}
             THEN ScanBounds(imgs, i + 1, alpha_limit, raw_width, raw_height, b)
             ELSE ScanBounds(imgs, i + 1, alpha_limit, raw_width, raw_height,
                             MergeBounds(b, x, y))

\* "are all images empty? (or some other edge case?)"
AllEmpty(b) ==
    b.min_x = u32_MAX \/ b.min_y = u32_MAX \/ b.max_x = u32_MIN \/ b.max_y = u32_MIN

\* "do we need to crop?"
NoCropNeeded(b, raw_width, raw_height) ==
    b.min_x = 0 /\ b.min_y = 0 /\ b.max_x = raw_width - 1 /\ b.max_y = raw_height - 1

CenterShiftNoMin(raw, cropped, min) == -(raw - cropped)
\* lines 195-196, doubled: -((raw - cropped) / 2 - min); raw - cropped is a
\* u32 subtraction
CenterShift(raw, cropped, min) == -((raw - cropped) - 2 * min)

\* the value crop_images returns and the frames it leaves behind
crop_images(imgs, alpha_limit) ==
    IF imgs = <<>> THEN [err |-> "NoImagesToCrop", images |-> imgs, shift |-> <<0, 0>>]
    ELSE
    LET raw_width  == imgs[1].width
        raw_height == imgs[1].height
        scan == ScanBounds(imgs, 1, alpha_limit, raw_width, raw_height, NoBounds)
        b == scan.b
    IN  IF scan.err # "none" THEN [err |-> scan.err, images |-> imgs, shift |-> <<0, 0>>]
        ELSE IF AllEmpty(b)
        THEN [err |-> "AllImagesEmpty", images |-> imgs, shift |-> <<0, 0>>]
        ELSE IF NoCropNeeded(b, raw_width, raw_height)
        THEN [err |-> "none", images |-> imgs, shift |-> <<0, 0>>]
        ELSE LET cropped_width  == b.max_x - b.min_x + 1
                 cropped_height == b.max_y - b.min_y + 1
             IN  [err |-> "none",
                  images |-> [i \in 1..Len(imgs) |->
                                crop_imm(imgs[i], b.min_x, b.min_y,
                                         cropped_width, cropped_height)],
                  shift |-> << CenterShift(raw_width, cropped_width, b.min_x),
                               CenterShift(raw_height, cropped_height, b.min_y) >>]

----------------------------------------------------------------------------
(* The variables of generate_spritesheet and of generate_mipmap_icon       *)
(* before either has run                                                   *)

IdleSheet ==
    /\ frame_sequence = <<>>
    /\ sprite_width = 0 /\ sprite_height = 0 /\ sprite_count = 0
    /\ max_cols_per_sheet = 0 /\ max_rows_per_sheet = 0
    /\ max_per_sheet = 0 /\ sheet_count = 0
    /\ cols = 0 /\ rows = 0
    /\ sheet = <<>>
    /\ sheets = <<>>
    /\ placed = <<>>
    /\ frags_x = 0 /\ frags_y = 0
    /\ frag_groups = <<>>
    /\ layers = <<>>
    /\ saved = <<>>
    /\ icon_res = <<>> /\ next_width = 0 /\ next_x = 0 /\ icon_idx = 0 /\ icon = <<>>
    /\ histo = {} /\ palette = <<>> /\ encoded = <<>>
    /\ sources = {} /\ units = <<>> /\ files = {} /\ logged = {}

----------------------------------------------------------------------------
(* crop_images under test: applied to a frame set, then to its own result  *)

\* the pixel positions of a frame set of n frames of w x h pixels
Positions(n, w, h) == (1..n) \X (0..(w - 1)) \X (0..(h - 1))

\* the frame set in which exactly the positions of lit are lit, with alpha a[pos]
FrameSetOf(n, w, h, lit, a) ==
    [i \in 1..n |-> Image(w, h, { <<p[2], p[3], a[p]>> : p \in { q \in lit : q[1] = i } })]

\* the subsets of S of at most k elements
RECURSIVE SubsetsUpTo(_, _)
SubsetsUpTo(S, k) ==
    IF k = 0 THEN {{}}
    ELSE LET T == SubsetsUpTo(S, k - 1)
         IN  T \cup { t \cup {e} : t \in T, e \in S }

InitCrop ==
    /\ \E n \in 1..MaxFrames, w \in 1..MaxW, h \in 1..MaxH :
         \E lit \in SubsetsUpTo(Positions(n, w, h), MaxLit) :
           \E a \in [lit -> Alphas] :
             images = FrameSetOf(n, w, h, lit, a)
    /\ args \in [crop_alpha : AlphaLimits]
    /\ loaded = <<>>
    /\ pc = "crop_images"
    /\ result = "none"
    /\ shift = <<0, 0>>
    /\ before = <<>>
    /\ calls = 0
    /\ IdleSheet

\* one call of crop_images(&mut images, alpha_limit)
CropCall ==
    /\ pc = "crop_images"
    /\ calls < MaxCalls
    /\ result \in {"none", "ok"}
    /\ LET r == crop_images(images, args.crop_alpha)
       IN  /\ images' = r.images
           /\ shift' = r.shift
           /\ result' = IF r.err = "none" THEN "ok" ELSE r.err
    /\ before' = images
    /\ calls' = calls + 1
    /\ UNCHANGED <<args, loaded, pc, frame_sequence, saved, measurev, layoutv, splitv, iconv,
                   savev, execv>>

NextCrop == CropCall

SpecCrop == InitCrop /\ [][NextCrop]_vars

----------------------------------------------------------------------------
(* image_util::dedup_empty_frames                                          *)

\* usize::MAX, the "no empty frame yet" sentinel: beyond TLC's integers, and
\* only ever compared against an index into the result, which is below it
usize_MAX == 2147483647

IsEmptyFrameNever(image) == FALSE
\* image.pixels().all(|pxl| pxl[3] == 0)
IsEmptyFrame(image) == image.px = {}

\* as DedupLoop, but the index of a kept frame is taken after the push
RECURSIVE DedupLoopPushFirst(_, _, _, _, _)
DedupLoopPushFirst(imgs, i, res, sequence, first_empty_idx) ==
    IF i > Len(imgs) THEN [images |-> res, sequence |-> sequence]
    ELSE IF IsEmptyFrame(imgs[i])
    THEN IF first_empty_idx = usize_MAX
         THEN DedupLoopPushFirst(imgs, i + 1, Append(res, imgs[i]),
                                 Append(sequence, Len(res)), Len(res))
         ELSE DedupLoopPushFirst(imgs, i + 1, res,
                                 Append(sequence, first_empty_idx), first_empty_idx)
    ELSE DedupLoopPushFirst(imgs, i + 1, Append(res, imgs[i]),
                            Append(sequence, Len(res) + 1), first_empty_idx)

\* as DedupLoop, but the first empty frame is forgotten once it has been reused
RECURSIVE DedupLoopForgetful(_, _, _, _, _)
DedupLoopForgetful(imgs, i, res, sequence, first_empty_idx) ==
    IF i > Len(imgs) THEN [images |-> res, sequence |-> sequence]
    ELSE IF IsEmptyFrame(imgs[i])
    THEN IF first_empty_idx = usize_MAX
         THEN DedupLoopForgetful(imgs, i + 1, Append(res, imgs[i]),
                                 Append(sequence, Len(res)), Len(res))
         ELSE DedupLoopForgetful(imgs, i + 1, res,
                                 Append(sequence, first_empty_idx), usize_MAX)
    ELSE DedupLoopForgetful(imgs, i + 1, Append(res, imgs[i]),
                            Append(sequence, Len(res)), first_empty_idx)

\* the loop over the images, from image i on; indices into res are 0-based
RECURSIVE DedupLoop(_, _, _, _, _)
DedupLoop(imgs, i, res, sequence, first_empty_idx) ==
    IF i > Len(imgs) THEN [images |-> res, sequence |-> sequence]
    ELSE IF IsEmptyFrame(imgs[i])
    THEN IF first_empty_idx = usize_MAX
         THEN DedupLoop(imgs, i + 1, Append(res, imgs[i]),
                        Append(sequence, Len(res)), Len(res))
         ELSE DedupLoop(imgs, i + 1, res,
                        Append(sequence, first_empty_idx), first_empty_idx)
    ELSE DedupLoop(imgs, i + 1, Append(res, imgs[i]),
                   Append(sequence, Len(res)), first_empty_idx)

dedup_empty_frames(imgs) == DedupLoop(imgs, 1, <<>>, <<>>, usize_MAX)

----------------------------------------------------------------------------
(* commands/spritesheet.rs: generate_spritesheet                           *)
(* --scale is 1.0 and --transparent-black is not given: lines 211-224 do   *)
(* nothing.  The source directory holds at least one image.                *)

\* "Maximum side length of a single graphic file to load in Factorio"
MAX_SIZE == 8192

Minimum(a, b) == IF a < b THEN a ELSE b

\* u32::div_ceil, and the f64 division rounded up of line 403, which is exact
\* for operands of this size
div_ceil(a, b) == (a + b - 1) \div b

\* lines 226-230: crop unless --no-crop
CropStage ==
    /\ pc = "crop"
    /\ IF args.no_crop
       THEN /\ shift' = <<0, 0>>
            /\ pc' = "dedup"
            /\ UNCHANGED <<images, result>>
       ELSE LET r == crop_images(images, args.crop_alpha)
            IN  /\ images' = r.images
                /\ shift' = r.shift
                /\ IF r.err = "none"
                   THEN pc' = "dedup" /\ UNCHANGED result
                   ELSE pc' = "done" /\ result' = r.err
    /\ UNCHANGED <<args, loaded, frame_sequence, saved, cropv, measurev, layoutv, splitv, iconv,
                   savev, execv>>

\* lines 232-239: dedup empty frames
DedupStage ==
    /\ pc = "dedup"
    /\ IF args.deduplicate_empty_frames
       THEN LET d == dedup_empty_frames(images)
            IN  /\ images' = d.images
                /\ frame_sequence' = <<d.sequence>>
       ELSE UNCHANGED <<images, frame_sequence>>
    /\ pc' = "measure"
    /\ UNCHANGED <<args, loaded, result, shift, saved, cropv, measurev, layoutv, splitv, iconv,
                   savev, execv>>

\* lines 245-263: the largest grid of sprites a sheet may hold
MaxGrid(width, height, max_sheet_size, max_sheet_width) ==
    LET technical_max_cols == MAX_SIZE \div width
        technical_max_rows == MAX_SIZE \div height
    IN  IF max_sheet_size = 0 /\ max_sheet_width = 0
        THEN <<technical_max_cols, technical_max_rows>>
        ELSE IF max_sheet_width = 0
        THEN <<Minimum(max_sheet_size, technical_max_cols),
               Minimum(max_sheet_size, technical_max_rows)>>
        ELSE IF max_sheet_size = 0
        THEN <<Minimum(max_sheet_width, technical_max_cols), technical_max_rows>>
        ELSE <<Minimum(max_sheet_width, technical_max_cols),
               Minimum(max_sheet_size, technical_max_rows)>>

\* lines 267-268; the division panics when max_per_sheet is 0
SheetCount(len, per_sheet) ==
    (len \div per_sheet) + (IF len % per_sheet > 0 THEN 1 ELSE 0)

\* lines 241-283: sprite size and count, sheet capacity, sheet count, and the
\* choice between splitting into layers and laying out sheets
Measure ==
    /\ pc = "measure"
    /\ LET width  == images[1].width
           height == images[1].height
           grid   == MaxGrid(width, height, args.max_sheet_size, args.max_sheet_width)
           per_sheet == grid[2] * grid[1]
       IN  /\ sprite_width' = width
           /\ sprite_height' = height
           /\ sprite_count' = Len(images)
           /\ max_cols_per_sheet' = grid[1]
           /\ max_rows_per_sheet' = grid[2]
           /\ max_per_sheet' = per_sheet
           /\ IF per_sheet = 0
              THEN /\ sheet_count' = 0
                   /\ result' = "panic"
                   /\ pc' = "done"
                   /\ UNCHANGED <<frags_x, frags_y>>
              ELSE /\ sheet_count' = SheetCount(Len(images), per_sheet)
                   /\ UNCHANGED result
                   /\ IF args.single_sheet_split_mode /\ sheet_count' > 1
                      THEN pc' = "frag_search" /\ frags_x' = 1 /\ frags_y' = 1
                      ELSE pc' = "layout" /\ UNCHANGED <<frags_x, frags_y>>
    /\ UNCHANGED <<args, loaded, images, shift, frame_sequence, saved, cropv, layoutv,
                   frag_groups, layers, iconv, savev, execv>>

\* lines 332-347: a maximized sheet, or the start of the custom arrangement
Layout ==
    /\ pc = "layout"
    /\ IF max_per_sheet <= sprite_count
       THEN /\ sheet' = [sheet_width    |-> sprite_width * max_cols_per_sheet,
                         sheet_height   |-> sprite_height * max_rows_per_sheet,
                         cols_per_sheet |-> max_cols_per_sheet,
                         rows_per_sheet |-> max_rows_per_sheet,
                         max_per_sheet  |-> max_per_sheet]
            /\ pc' = "alloc"
            /\ UNCHANGED <<cols, rows>>
       ELSE /\ cols' = 1
            /\ rows' = 1
            /\ pc' = "grow"
            /\ UNCHANGED sheet
    /\ UNCHANGED <<args, loaded, images, result, shift, frame_sequence, saved, cropv,
                   measurev, sheets, placed, splitv, iconv, savev, execv>>

AddColumnStrict(c, r) ==
    (c < max_cols_per_sheet) /\ (c * sprite_width < r * sprite_height)
\* line 350: whether the next step adds a column
AddColumn(c, r) ==
    (c < max_cols_per_sheet) /\ (c * sprite_width <= r * sprite_height)

\* lines 349-357: one iteration of the while loop
GrowStep ==
    /\ pc = "grow"
    /\ cols * rows < sprite_count
    /\ IF AddColumn(cols, rows)
       THEN cols' = cols + 1 /\ UNCHANGED rows
       ELSE rows' = rows + 1 /\ UNCHANGED cols
    /\ UNCHANGED <<args, loaded, images, pc, result, shift, frame_sequence, saved, cropv,
                   measurev, sheet, sheets, placed, splitv, iconv, savev, execv>>

TrimmedRowsNone(c, r, count) == r
\* lines 359-363: the rows left after the empty ones are dropped
TrimmedRows(c, r, count) ==
    LET empty == c * r - count
    IN  IF empty \div c > 0 THEN r - (empty \div c) ELSE r

\* lines 359-374: the loop is over; trim empty rows and fix the sheet
GrowDone ==
    /\ pc = "grow"
    /\ ~(cols * rows < sprite_count)
    /\ rows' = TrimmedRows(cols, rows, sprite_count)
    /\ sheet' = [sheet_width    |-> sprite_width * cols,
                 sheet_height   |-> sprite_height * rows',
                 cols_per_sheet |-> cols,
                 rows_per_sheet |-> rows',
                 max_per_sheet  |-> cols * rows']
    /\ pc' = "alloc"
    /\ UNCHANGED <<args, loaded, images, result, shift, frame_sequence, saved, cropv,
                   measurev, cols, sheets, placed, splitv, iconv, savev, execv>>

Canvas(width, height, id) == [width |-> width, height |-> height, id |-> id]

LastCountRaw(count, per_sheet) == count % per_sheet
\* lines 394-397: the number of sprites on the last sheet
LastCount(count, per_sheet) ==
    IF count % per_sheet = 0 THEN per_sheet ELSE count % per_sheet

\* lines 378-413: allocate the canvases; id is the Option<usize> of output_name,
\* <<>> for None and <<idx>> for Some(idx)
AllocSheets ==
    /\ pc = "alloc"
    /\ IF sheet_count = 1
       THEN sheets' = << Canvas(sheet.sheet_width, sheet.sheet_height, <<>>) >>
       ELSE sheets' =
              [i \in 1..sheet_count |->
                 IF i < sheet_count
                 THEN Canvas(sheet.sheet_width, sheet.sheet_height, <<i - 1>>)
                 ELSE Canvas(sheet.sheet_width,
                             sprite_height
                               * div_ceil(LastCount(sprite_count, sheet.max_per_sheet),
                                          max_cols_per_sheet),
                             <<sheet_count - 1>>)]
    /\ pc' = "arrange"
    /\ UNCHANGED <<args, loaded, images, result, shift, frame_sequence, saved, cropv,
                   measurev, cols, rows, sheet, placed, splitv, iconv, savev, execv>>

CellColumnMajor(idx) ==
    LET sheet_idx  == idx \div sheet.max_per_sheet
        sprite_idx == idx % sheet.max_per_sheet
        row  == sprite_idx \div sheet.rows_per_sheet
        line == sprite_idx % sheet.rows_per_sheet
    IN  [sheet_idx |-> sheet_idx, row |-> row, line |-> line,
         x |-> row * sprite_width, y |-> line * sprite_height]
\* lines 421-430: where sprite idx (0-based) is blitted; the code calls the
\* column "row" and the row "line"
Cell(idx) ==
    LET sheet_idx  == idx \div sheet.max_per_sheet
        sprite_idx == idx % sheet.max_per_sheet
        row  == sprite_idx % sheet.cols_per_sheet
        line == sprite_idx \div sheet.cols_per_sheet
    IN  [sheet_idx |-> sheet_idx, row |-> row, line |-> line,
         x |-> row * sprite_width, y |-> line * sprite_height]

\* line 417
SameSize(image) == image.width = sprite_width /\ image.height = sprite_height

\* lines 415-431: blit the sprites in order, up to the first one of another size
ArrangeSprites ==
    /\ pc = "arrange"
    /\ LET bad == { i \in 1..Len(images) : ~SameSize(images[i]) }
       IN  IF bad = {}
           THEN /\ placed' = [i \in 1..Len(images) |-> Cell(i - 1)]
                /\ pc' = "save"
                /\ UNCHANGED result
           ELSE /\ placed' = [i \in 1..(Min(bad) - 1) |-> Cell(i - 1)]
                /\ pc' = "done"
                /\ result' = "ImagesNotSameSize"
    /\ UNCHANGED <<args, loaded, images, shift, frame_sequence, saved, cropv,
                   measurev, cols, rows, sheet, sheets, splitv, iconv, savev, execv>>

\* lines 448-471: the metadata files written
Metadata ==
    (IF args.lua THEN << <<<<>>, "lua">> >> ELSE <<>>)
    \o (IF args.json THEN << <<<<>>, "json">> >> ELSE <<>>)

\* lines 433-473: save the sheets, then the metadata; encoding does not fail
SaveSheets ==
    /\ pc = "save"
    /\ saved' = [i \in 1..Len(sheets) |-> <<sheets[i].id, "png">>] \o Metadata
    /\ result' = "ok"
    /\ pc' = "done"
    /\ UNCHANGED <<args, loaded, images, shift, frame_sequence, cropv, measurev, layoutv,
                   splitv, iconv, savev, execv>>

----------------------------------------------------------------------------
(* commands/spritesheet.rs: generate_subframe_sheets                       *)

\* lines 493-494 and 510-511
FragWidth  == div_ceil(sprite_width, frags_x)
FragHeight == div_ceil(sprite_height, frags_y)

FragsFitStrict ==
    (MAX_SIZE \div FragWidth) * (MAX_SIZE \div FragHeight) > sprite_count
\* lines 496-499: the fragments of the current size fit one sheet
FragsFit ==
    (MAX_SIZE \div FragWidth) * (MAX_SIZE \div FragHeight) >= sprite_count

\* line 503: split the wider axis, the x axis on a tie
SplitWider == FragWidth >= FragHeight

\* lines 492-508: one iteration of the loop that does not break
FragSearch ==
    /\ pc = "frag_search"
    /\ ~FragsFit
    /\ IF SplitWider
       THEN frags_x' = frags_x + 1 /\ UNCHANGED frags_y
       ELSE frags_y' = frags_y + 1 /\ UNCHANGED frags_x
    /\ UNCHANGED <<args, loaded, images, pc, result, shift, frame_sequence, saved, cropv,
                   measurev, layoutv, frag_groups, layers, iconv, savev, execv>>

ExtentUnclipped(frag, size, t) == frag
\* lines 518-519: frag.min(size - t); size - t is a u32 subtraction, which
\* wraps to a value above frag in a release build when t > size
Extent(frag, size, t) ==
    IF t > size THEN frag ELSE Minimum(frag, size - t)

\* lines 516-525: dimensions, offset and shift of subframe (x, y)
FragGroup(x, y) ==
    LET tx == x * FragWidth
        ty == y * FragHeight
        width  == Extent(FragWidth, sprite_width, tx)
        height == Extent(FragHeight, sprite_height, ty)
    IN  [tx |-> tx, ty |-> ty, width |-> width, height |-> height,
         shift |-> << (width - sprite_width) + 2 * tx + shift[1],
                      (height - sprite_height) + 2 * ty + shift[2] >>]

\* lines 500 and 510-536: the loop breaks and the subframes are cut, row by
\* row.  A debug build panics on the overflow of sprite_width - tx, a release
\* build wraps.
FragGroups ==
    /\ pc = "frag_search"
    /\ FragsFit
    /\ LET overflow == \/ (frags_x - 1) * FragWidth > sprite_width
                       \/ (frags_y - 1) * FragHeight > sprite_height
       IN  \E build \in (IF overflow THEN {"debug", "release"} ELSE {"release"}) :
             IF build = "debug"
             THEN /\ result' = "panic"
                  /\ pc' = "done"
                  /\ UNCHANGED frag_groups
             ELSE /\ frag_groups' =
                       [k \in 1..(frags_x * frags_y) |->
                          FragGroup((k - 1) % frags_x, (k - 1) \div frags_x)]
                  /\ pc' = "frag_arrange"
                  /\ UNCHANGED result
    /\ UNCHANGED <<args, loaded, images, shift, frame_sequence, saved, cropv,
                   measurev, layoutv, frags_x, frags_y, layers, iconv, savev, execv>>

FragCellNoWrap(i, c, width, height) ==
    [row |-> i, line |-> 0, x |-> i * width, y |-> 0]
\* lines 550-554: the cell and the pixel position of fragment i of a group
FragCell(i, c, width, height) ==
    LET row  == i % c
        line == i \div c
    IN  [row |-> row, line |-> line, x |-> row * width, y |-> line * height]

\* lines 542-559: the sheet of one subframe group and the position of each
\* of its fragments, one per frame of images
LayerOf(g) ==
    LET c == MAX_SIZE \div g.width
        r == div_ceil(sprite_count, c)
    IN  [width |-> g.width, height |-> g.height, shift |-> g.shift,
         cols |-> c, rows |-> r,
         sheet_width |-> c * g.width, sheet_height |-> r * g.height,
         placed |-> [k \in 1..Len(images) |-> FragCell(k - 1, c, g.width, g.height)]]

\* lines 538-561: arrange the subframes on one sheet per group and return.
\* MAX_SIZE / width panics for a subframe of width 0, and div_ceil(cols) for
\* cols = 0.
ArrangeSubframes ==
    /\ pc = "frag_arrange"
    /\ IF \E k \in 1..Len(frag_groups) :
            frag_groups[k].width = 0 \/ frag_groups[k].width > MAX_SIZE
       THEN /\ result' = "panic"
            /\ pc' = "done"
            /\ UNCHANGED layers
       ELSE /\ layers' = [k \in 1..Len(frag_groups) |-> LayerOf(frag_groups[k])]
            /\ pc' = "split_return"
            /\ UNCHANGED result
    /\ UNCHANGED <<args, loaded, images, shift, frame_sequence, saved, cropv,
                   measurev, layoutv, frags_x, frags_y, frag_groups, iconv, savev, execv>>

\* lines 284-329: save one sheet per layer, then the lua file
SaveLayers ==
    /\ pc = "split_return"
    /\ saved' = [k \in 1..Len(layers) |-> << <<k - 1>>, "png" >>]
                \o (IF args.lua THEN << <<<<>>, "lua">> >> ELSE <<>>)
    /\ result' = "ok"
    /\ pc' = "done"
    /\ UNCHANGED <<args, loaded, images, shift, frame_sequence, cropv, measurev, layoutv,
                   splitv, iconv, savev, execv>>

----------------------------------------------------------------------------
(* generate_spritesheet on one source directory                            *)

Next ==
    \/ CropStage
    \/ DedupStage
    \/ Measure
    \/ Layout
    \/ GrowStep
    \/ GrowDone
    \/ AllocSheets
    \/ ArrangeSprites
    \/ SaveSheets
    \/ FragSearch
    \/ FragGroups
    \/ ArrangeSubframes
    \/ SaveLayers

\* the start of generate_spritesheet, images loaded
Start ==
    /\ loaded = images
    /\ pc = "crop"
    /\ result = "none"
    /\ shift = <<0, 0>>
    /\ before = <<>>
    /\ calls = 0
    /\ IdleSheet

(* Sheet geometry: uniform frames of the sizes at which the number of      *)
(* sprites per MAX_SIZE changes, and of a few pixels                       *)

MaxDiv == 4        \* sizes around MAX_SIZE / k for k up to this
MaxSmall == 3      \* and sizes from 1 pixel up to this
MaxSprites == 40   \* most frames of a source directory

Sizes ==
    { s \in { (MAX_SIZE \div k) + e : k \in 1..MaxDiv, e \in {-1, 0, 1} } : s >= 1 }
      \cup (1..MaxSmall)

\* a frame with a visible pixel in two opposite corners: it is not cropped
FullFrame(w, h) == Image(w, h, { <<0, 0, 2>>, <<w - 1, h - 1, 2>> })

\* the sizes tried with --max-sheet-size and --max-sheet-width as well
OverrideSizes == { 3, 64, MAX_SIZE \div 4, (MAX_SIZE \div 3) + 1 }

\* <<max_sheet_size, max_sheet_width>>: one value for each arm of the match
\* at lines 249-262
Overrides == { <<0, 0>>, <<2, 0>>, <<0, 3>>, <<2, 3>> }

SheetArgs(split, o) ==
    [no_crop |-> TRUE, crop_alpha |-> 0,
     deduplicate_empty_frames |-> FALSE,
     single_sheet_split_mode |-> split,
     max_sheet_size |-> o[1], max_sheet_width |-> o[2],
     lua |-> FALSE, json |-> FALSE]

InitSheet ==
    /\ \/ \E n \in 1..MaxSprites, w \in Sizes, h \in Sizes, split \in BOOLEAN :
            /\ images = [i \in 1..n |-> FullFrame(w, h)]
            /\ args = SheetArgs(split, <<0, 0>>)
       \/ \E n \in 1..MaxSprites, w \in OverrideSizes, h \in OverrideSizes,
             split \in BOOLEAN, o \in Overrides :
            /\ images = [i \in 1..n |-> FullFrame(w, h)]
            /\ args = SheetArgs(split, o)
    /\ Start

SpecSheet == InitSheet /\ [][Next]_vars

(* The whole of generate_spritesheet on a few frames, which may differ in  *)
(* size, under every combination of the flags                              *)

MaxPipeFrames == 3   \* most frames of a source directory

PipeDims == { <<2, 2>>, <<3, 2>>, <<2, 3>>, <<MAX_SIZE, MAX_SIZE>> }

\* a frame is fully transparent, or has a visible pixel in two corners
PipeFrames ==
    { Image(d[1], d[2], {}) : d \in PipeDims }
      \cup { FullFrame(d[1], d[2]) : d \in PipeDims }

InitPipe ==
    /\ \E n \in 1..MaxPipeFrames : images \in [1..n -> PipeFrames]
    /\ \E no_crop \in BOOLEAN, dedup \in BOOLEAN, split \in BOOLEAN,
          max_sheet_size \in {0, 1}, lua \in BOOLEAN, json \in BOOLEAN :
         args = [no_crop |-> no_crop, crop_alpha |-> 0,
                 deduplicate_empty_frames |-> dedup,
                 single_sheet_split_mode |-> split,
                 max_sheet_size |-> max_sheet_size, max_sheet_width |-> 0,
                 lua |-> lua, json |-> json]
    /\ Start

SpecPipe == InitPipe /\ [][Next]_vars

(* generate_subframe_sheets under test: any sprite size, and the sprite    *)
(* counts around which the number of fragments that fit a sheet changes    *)

MaxSplitDim == 6   \* sprite sizes from 1 pixel up to this, with any sprite count

\* the counts at which fragments of size ceil(w / a) x ceil(h / b) just fit
\* one sheet, and one above; the loop ends for every count up to MAX_SIZE^2
SplitCounts(w, h) ==
    { c \in {1, 2, MAX_SIZE * MAX_SIZE}
            \cup { (MAX_SIZE \div div_ceil(w, a)) * (MAX_SIZE \div div_ceil(h, b)) + d :
                     a \in 1..Minimum(w, MaxSplitDim),
                     b \in 1..Minimum(h, MaxSplitDim),
                     d \in {0, 1} } :
        c >= 1 /\ c <= MAX_SIZE * MAX_SIZE }

\* the call generate_subframe_sheets(args, images, sprite_width, sprite_height,
\* shift_x, shift_y): of the frames only their number, sprite_count, is
\* held, so that it can be as large as MAX_SIZE * MAX_SIZE
InitSplit ==
    /\ \/ \E w \in 1..MaxSplitDim, h \in 1..MaxSplitDim :
            \E n \in SplitCounts(w, h) :
              sprite_width = w /\ sprite_height = h /\ sprite_count = n
       \/ \E w \in Sizes, h \in Sizes :
            \E n \in 1..MaxSprites :
              sprite_width = w /\ sprite_height = h /\ sprite_count = n
    /\ frags_x = 1 /\ frags_y = 1
    /\ pc = "frag_search"
    /\ args = [lua |-> FALSE]
    /\ loaded = <<>>
    /\ images = <<>>
    /\ result = "none"
    /\ shift = <<0, 0>>
    /\ before = <<>> /\ calls = 0
    /\ frame_sequence = <<>>
    /\ max_cols_per_sheet = 0 /\ max_rows_per_sheet = 0
    /\ max_per_sheet = 0 /\ sheet_count = 0
    /\ cols = 0 /\ rows = 0
    /\ sheet = <<>> /\ sheets = <<>> /\ placed = <<>>
    /\ frag_groups = <<>> /\ layers = <<>>
    /\ saved = <<>>
    /\ icon_res = <<>> /\ next_width = 0 /\ next_x = 0 /\ icon_idx = 0 /\ icon = <<>>
    /\ histo = {} /\ palette = <<>> /\ encoded = <<>>
    /\ sources = {} /\ units = <<>> /\ files = {} /\ logged = {}

NextSplit ==
    \/ FragSearch
    \/ FragGroups
    \/ ArrangeSubframes

SpecSplit == InitSplit /\ [][NextSplit]_vars

\* the function runs on a thread of its own that is never suspended for
\* good: a step that stays possible is taken
SpecSplitFair == InitSplit /\ [][NextSplit]_vars /\ WF_vars(NextSplit)

(* dedup_empty_frames under test: applied to a frame set, then to its own   *)
(* result                                                                  *)

MaxDedupFrames == 8   \* most frames of a frame set handed to dedup_empty_frames

\* a fully transparent frame and two frames with a pixel of alpha > 0
DedupFrames ==
    { Image(2, 2, {}), Image(2, 2, { <<0, 0, 1>> }), Image(2, 2, { <<1, 1, 2>> }) }

InitDedup ==
    /\ \E n \in 1..MaxDedupFrames : images \in [1..n -> DedupFrames]
    /\ args = [deduplicate_empty_frames |-> TRUE]
    /\ loaded = <<>>
    /\ pc = "dedup_empty_frames"
    /\ result = "none"
    /\ shift = <<0, 0>>
    /\ before = <<>>
    /\ calls = 0
    /\ IdleSheet

\* one call of dedup_empty_frames(images), as at lines 232-239 of
\* generate_spritesheet
DedupCall ==
    /\ pc = "dedup_empty_frames"
    /\ calls < MaxCalls
    /\ LET d == dedup_empty_frames(images)
       IN  /\ images' = d.images
           /\ frame_sequence' = <<d.sequence>>
    /\ before' = images
    /\ calls' = calls + 1
    /\ result' = "ok"
    /\ UNCHANGED <<args, loaded, pc, shift, saved, measurev, layoutv, splitv, iconv,
                   savev, execv>>

NextDedup == DedupCall

SpecDedup == InitDedup /\ [][NextDedup]_vars

----------------------------------------------------------------------------
(* commands/icon.rs: generate_mipmap_icon                                  *)
(* The output directory can be created.  Only the sizes of the frames are  *)
(* read.                                                                   *)

\* the position of frame i after a stable sort by ascending width
RankByWidth(imgs, i) ==
    Cardinality({ j \in 1..Len(imgs) :
                    \/ imgs[j].width < imgs[i].width
                    \/ (imgs[j].width = imgs[i].width /\ j <= i) })

SortAscending(imgs) ==
    [k \in 1..Len(imgs) |-> imgs[CHOOSE i \in 1..Len(imgs) : RankByWidth(imgs, i) = k]]
\* lines 54-55: images.sort_by_key(ImageBuffer::width); images.reverse();
SortDescending(imgs) ==
    [k \in 1..Len(imgs) |->
       imgs[CHOOSE i \in 1..Len(imgs) : RankByWidth(imgs, i) = Len(imgs) + 1 - k]]

\* f64::from(n).log2().floor() for n >= 1
RECURSIVE FloorLog2(_)
FloorLog2(n) == IF n <= 1 THEN 0 ELSE 1 + FloorLog2(n \div 2)

\* lines 48-73: load, sort, check the base image, allocate the canvas
IconStart ==
    /\ pc = "icon_start"
    /\ IF loaded = <<>>
       THEN /\ result' = "ok"
            /\ pc' = "done"
            /\ UNCHANGED <<images, iconv>>
       ELSE LET sorted == SortDescending(loaded)
                base_width  == sorted[1].width
                base_height == sorted[1].height
                max_mipmap_levels == FloorLog2(base_width)
            IN  /\ images' = sorted
                /\ IF base_width # base_height
                   THEN /\ result' = "ImageNotSquare"
                        /\ pc' = "done"
                        /\ UNCHANGED iconv
                   ELSE IF Len(sorted) > max_mipmap_levels
                   THEN /\ result' = "TooManyImages"
                        /\ pc' = "done"
                        /\ UNCHANGED iconv
                   ELSE /\ icon_res' = [width |-> base_width * 2, height |-> base_height,
                                        levels |-> <<>>]
                        /\ next_width' = base_width
                        /\ next_x' = 0
                        /\ icon_idx' = 0
                        /\ pc' = "icon_level"
                        /\ UNCHANGED <<result, icon>>
    /\ UNCHANGED <<args, loaded, shift, frame_sequence, saved, cropv, measurev, layoutv,
                   splitv, savev, execv>>

\* line 88: imageops::replace(&mut res, sprite, x, 0)
Blit(canvas, sprite, x, y) ==
    [canvas EXCEPT !.levels =
        Append(@, [x |-> x, y |-> y, width |-> sprite.width, height |-> sprite.height])]

\* lines 75-92: one iteration of the loop over the levels
IconLevel ==
    /\ pc = "icon_level"
    /\ icon_idx < Len(images)
    /\ LET sprite == images[icon_idx + 1]
       IN  IF next_width % 2 # 0
           THEN /\ result' = "OddImageSizeForMipLevel"
                /\ pc' = "done"
                /\ UNCHANGED <<icon_res, next_width, next_x, icon_idx>>
           ELSE IF sprite.width # sprite.height
           THEN /\ result' = "ImageNotSquare"
                /\ pc' = "done"
                /\ UNCHANGED <<icon_res, next_width, next_x, icon_idx>>
           ELSE IF sprite.width # next_width
           THEN /\ result' = "WrongImageSize"
                /\ pc' = "done"
                /\ UNCHANGED <<icon_res, next_width, next_x, icon_idx>>
           ELSE /\ icon_res' = Blit(icon_res, sprite, next_x, 0)
                /\ next_x' = next_x + next_width
                /\ next_width' = next_width \div 2
                /\ icon_idx' = icon_idx + 1
                /\ UNCHANGED <<pc, result>>
    /\ UNCHANGED <<args, loaded, images, shift, frame_sequence, saved, icon, cropv,
                   measurev, layoutv, splitv, savev, execv>>

\* lines 94-116: crop the canvas to the width used, save it, then the
\* metadata
IconSave ==
    /\ pc = "icon_level"
    /\ icon_idx = Len(images)
    /\ icon' = [width |-> next_x, height |-> icon_res.height, levels |-> icon_res.levels]
    /\ saved' = << <<<<>>, "png">> >>
                 \o (IF args.lua THEN << <<<<>>, "lua">> >> ELSE <<>>)
                 \o (IF args.json THEN << <<<<>>, "json">> >> ELSE <<>>)
    /\ result' = "ok"
    /\ pc' = "done"
    /\ UNCHANGED <<args, loaded, images, shift, frame_sequence, icon_res, next_width, next_x,
                   icon_idx, cropv, measurev, layoutv, splitv, savev, execv>>

NextIcon ==
    \/ IconStart
    \/ IconLevel
    \/ IconSave

(* The source directory of an icon: up to MaxLevels images in file name    *)
(* order, of sides that halve evenly down to 1, that halve to an odd side, *)
(* or that do not halve, and some that are not square                      *)

MaxLevels == 3   \* most images of an icon's source directory

IconSides == { 1, 2, 3, 6, 12, 15, 16, 30, 32, 64 }

IconOblongs == { <<64, 32>>, <<32, 16>>, <<30, 16>>, <<16, 32>> }

IconFrames ==
    { Image(w, w, {}) : w \in IconSides }
      \cup { Image(d[1], d[2], {}) : d \in IconOblongs }

InitIcon ==
    /\ \E n \in 0..MaxLevels : loaded \in [1..n -> IconFrames]
    /\ \E lua \in BOOLEAN, json \in BOOLEAN : args = [lua |-> lua, json |-> json]
    /\ images = <<>>
    /\ pc = "icon_start"
    /\ result = "none"
    /\ shift = <<0, 0>>
    /\ before = <<>>
    /\ calls = 0
    /\ IdleSheet

SpecIcon == InitIcon /\ [][NextIcon]_vars

----------------------------------------------------------------------------
(* generate_gif, src/src/commands/gif.rs.  A frame is held as the sequence *)
(* of its pixels in pixels_mut() order, each pixel <<r, g, b, a>>          *)

\* gif.rs line 55: the alpha up to which a pixel is cleared
GifAlphaCutoff == 10

Transparent == <<0, 0, 0, 0>>

ClearPixelByThreshold(pxl, a) ==
    IF pxl[4] <= a.alpha_threshold THEN Transparent ELSE pxl
\* lines 54-61: the body of the pixel loop; the arguments are not read
ClearPixel(pxl, a) ==
    IF pxl[4] <= GifAlphaCutoff THEN Transparent ELSE pxl

\* lines 37-51: the warnings, the early returns and the load
GifStart ==
    /\ pc = "gif_start"
    /\ IF args.animation_speed <= 0
         THEN /\ result' = "ok"
              /\ pc' = "done"
              /\ images' = images
         ELSE /\ images' = loaded
              /\ IF loaded = <<>>
                   THEN result' = "ok" /\ pc' = "done"
                   ELSE result' = result /\ pc' = "gif_clear"
    /\ UNCHANGED <<args, loaded, shift, frame_sequence, saved, cropv, measurev, layoutv,
                   splitv, iconv, savev, execv>>

\* lines 53-62: every pixel of every frame goes through the loop body
GifClear ==
    /\ pc = "gif_clear"
    /\ images' = [i \in 1..Len(images) |->
                    [p \in 1..Len(images[i]) |-> ClearPixel(images[i][p], args)]]
    /\ pc' = "gif_encode"
    /\ UNCHANGED <<args, loaded, result, shift, frame_sequence, saved, cropv, measurev,
                   layoutv, splitv, iconv, savev, execv>>

\* lines 64-84: the file is created and the frames are encoded into it;
\* creating the file, set_repeat and try_encode_frames may each fail
GifEncode ==
    /\ pc = "gif_encode"
    /\ \E created \in BOOLEAN, written \in BOOLEAN :
         /\ saved' = IF created THEN << <<<<>>, ".gif">> >> ELSE saved
         /\ result' = IF created /\ written THEN "ok" ELSE "err"
    /\ pc' = "done"
    /\ UNCHANGED <<args, loaded, images, shift, frame_sequence, cropv, measurev, layoutv,
                   splitv, iconv, savev, execv>>

NextGif ==
    \/ GifStart
    \/ GifClear
    \/ GifEncode

(* The source directory of a gif: up to MaxGifFrames frames of up to       *)
(* MaxGifPixels pixels, with the alphas on both sides of the cutoff; the   *)
(* thresholds a user may pass: the default, the cutoff and one above it    *)

MaxGifFrames == 2   \* most frames of a gif's source directory
MaxGifPixels == 1   \* most pixels of a frame

GifAlphas == { 1, GifAlphaCutoff, GifAlphaCutoff + 1, 255 }

GifPixelKinds == { Transparent } \cup { <<9, 9, 9, a>> : a \in GifAlphas }

GifThresholds == { 0, GifAlphaCutoff, GifAlphaCutoff + 1 }

GifSpeeds == { 0, 1 }

GifFrames == UNION { [1..n -> GifPixelKinds] : n \in 1..MaxGifPixels }

InitGif ==
    /\ \E n \in 0..MaxGifFrames : loaded \in [1..n -> GifFrames]
    /\ \E t \in GifThresholds, s \in GifSpeeds :
         args = [alpha_threshold |-> t, animation_speed |-> s]
    /\ images = <<>>
    /\ pc = "gif_start"
    /\ result = "none"
    /\ shift = <<0, 0>>
    /\ before = <<>>
    /\ calls = 0
    /\ IdleSheet

SpecGif == InitGif /\ [][NextGif]_vars

----------------------------------------------------------------------------
(* save_sheets, src/src/image_util.rs.  A sheet is held as its path and    *)
(* its colour histogram, the number of its pixels of each colour; the      *)
(* calls into imagequant, png and oxipng and the file writes may fail      *)

Colours == { "red", "green" }

\* line 369: the empty histogram
NewHistogram == [added |-> 0, counts |-> [c \in Colours |-> 0]]

\* line 372: add_colors merges the entries of one sheet into the histogram
AddColors(h, entries) ==
    [added |-> h.added + 1,
     counts |-> [c \in Colours |-> h.counts[c] + entries[c]]]

\* lines 375-377: the palette holds the colours the histogram has seen
Quantize(counts) == { c \in Colours : counts[c] > 0 }

\* lines 387-393: every pixel is drawn with an entry of the palette, its own
\* colour where the palette holds it
Remapped(entries, pal) ==
    { IF c \in pal \/ pal = {} THEN c ELSE CHOOSE q \in pal : TRUE :
        c \in { d \in Colours : entries[d] > 0 } }

\* line 365: histogram and palette are made ahead of time
Grouped == Len(sheets) > 1 /\ args.lossy /\ args.group

HistoDoneEarly(added, sheets_count) == added >= 1
\* lines 371-373: the loop is left after the last sheet
HistoDone(added, sheets_count) == added = sheets_count

\* lines 362-369, 412
SaveStart ==
    /\ pc = "save_start"
    /\ IF Grouped
         THEN \E attr_ok \in BOOLEAN :
                IF attr_ok
                  THEN histo' = NewHistogram /\ pc' = "save_histo" /\ result' = result
                  ELSE histo' = histo /\ pc' = "done" /\ result' = "err"
         ELSE histo' = histo /\ pc' = "save_regular" /\ result' = result
    /\ UNCHANGED <<palette, encoded>>
    /\ UNCHANGED <<args, loaded, images, shift, frame_sequence, saved, cropv, measurev, layoutv,
                   splitv, iconv, execv>>

\* lines 371-373: one turn of the histogram loop
SaveHistogram ==
    /\ pc = "save_histo"
    /\ ~HistoDone(histo.added, Len(sheets))
    /\ \E added_ok \in BOOLEAN :
         IF added_ok
           THEN /\ histo' = AddColors(histo, sheets[histo.added + 1].counts)
                /\ pc' = pc /\ result' = result
           ELSE histo' = histo /\ pc' = "done" /\ result' = "err"
    /\ UNCHANGED <<palette, encoded>>
    /\ UNCHANGED <<args, loaded, images, shift, frame_sequence, saved, cropv, measurev, layoutv,
                   splitv, iconv, execv>>

\* lines 375-377: the shared palette
SaveQuantize ==
    /\ pc = "save_histo"
    /\ HistoDone(histo.added, Len(sheets))
    /\ \E quant_ok \in BOOLEAN :
         IF quant_ok
           THEN palette' = <<Quantize(histo.counts)>> /\ pc' = "save_encode"
                /\ result' = result
           ELSE palette' = palette /\ pc' = "done" /\ result' = "err"
    /\ UNCHANGED <<histo, encoded>>
    /\ UNCHANGED <<args, loaded, images, shift, frame_sequence, saved, cropv, measurev, layoutv,
                   splitv, iconv, execv>>

\* lines 381-402: one turn of the encode loop; a failure before File::create
\* leaves no file
SaveEncode ==
    /\ pc = "save_encode"
    /\ Len(encoded) < Len(sheets)
    /\ \E encode_ok \in BOOLEAN :
         IF encode_ok
           THEN LET s == sheets[Len(encoded) + 1]
                IN /\ encoded' = Append(encoded,
                                   [path |-> s.path, palette |-> palette[1],
                                    colors |-> Remapped(s.counts, palette[1])])
                   /\ pc' = pc /\ result' = result
           ELSE encoded' = encoded /\ pc' = "done" /\ result' = "err"
    /\ UNCHANGED <<histo, palette>>
    /\ UNCHANGED <<args, loaded, images, shift, frame_sequence, saved, cropv, measurev, layoutv,
                   splitv, iconv, execv>>

\* line 414 with lines 249-263: a sheet saved on its own, with a palette
\* of its own under lossy
SaveRegular ==
    /\ pc = "save_regular"
    /\ Len(encoded) < Len(sheets)
    /\ \E save_ok \in BOOLEAN :
         IF save_ok
           THEN LET s   == sheets[Len(encoded) + 1]
                    pal == IF args.lossy THEN Quantize(s.counts) ELSE {}
                IN /\ encoded' = Append(encoded,
                                   [path |-> s.path, palette |-> pal,
                                    colors |-> Remapped(s.counts, pal)])
                   /\ pc' = pc /\ result' = result
           ELSE encoded' = encoded /\ pc' = "done" /\ result' = "err"
    /\ UNCHANGED <<histo, palette>>
    /\ UNCHANGED <<args, loaded, images, shift, frame_sequence, saved, cropv, measurev, layoutv,
                   splitv, iconv, execv>>

\* lines 408, 425: the sizes of the files written are returned
SaveReturn ==
    /\ pc \in {"save_encode", "save_regular"}
    /\ Len(encoded) = Len(sheets)
    /\ result' = "ok"
    /\ pc' = "done"
    /\ UNCHANGED <<histo, palette, encoded>>
    /\ UNCHANGED <<args, loaded, images, shift, frame_sequence, saved, cropv, measurev, layoutv,
                   splitv, iconv, execv>>

NextSave ==
    \/ SaveStart
    \/ SaveHistogram
    \/ SaveQuantize
    \/ SaveEncode
    \/ SaveRegular
    \/ SaveReturn

(* The sheets handed to save_sheets: up to MaxSaveSheets of them, each     *)
(* with no more than MaxPixels pixels of a colour and at least one pixel   *)

MaxSaveSheets == 3   \* most sheets of one call
MaxPixels     == 1   \* most pixels of one colour on a sheet

SheetHistograms ==
    { h \in [Colours -> 0..MaxPixels] : \E c \in Colours : h[c] > 0 }

InitSave ==
    /\ \E n \in 0..MaxSaveSheets : \E h \in [1..n -> SheetHistograms] :
         sheets = [i \in 1..n |-> [path |-> i, counts |-> h[i]]]
    /\ \E lossy \in BOOLEAN, group \in BOOLEAN : args = [lossy |-> lossy, group |-> group]
    /\ loaded = <<>>
    /\ images = <<>>
    /\ pc = "save_start"
    /\ result = "none"
    /\ shift = <<0, 0>>
    /\ before = <<>>
    /\ calls = 0
    /\ frame_sequence = <<>>
    /\ sprite_width = 0 /\ sprite_height = 0 /\ sprite_count = 0
    /\ max_cols_per_sheet = 0 /\ max_rows_per_sheet = 0
    /\ max_per_sheet = 0 /\ sheet_count = 0
    /\ cols = 0 /\ rows = 0
    /\ sheet = <<>>
    /\ placed = <<>>
    /\ frags_x = 0 /\ frags_y = 0
    /\ frag_groups = <<>>
    /\ layers = <<>>
    /\ saved = <<>>
    /\ icon_res = <<>> /\ next_width = 0 /\ next_x = 0 /\ icon_idx = 0 /\ icon = <<>>
    /\ histo = {} /\ palette = <<>> /\ encoded = <<>>
    /\ sources = {} /\ units = <<>> /\ files = {} /\ logged = {}

SpecSave == InitSave /\ [][NextSave]_vars

----------------------------------------------------------------------------
(* SpritesheetArgs::execute, src/src/commands/spritesheet.rs, with         *)
(* output_name, src/src/commands.rs.  A file name is held as the sequence  *)
(* of its characters; Option<usize> is <<>> for None and <<i>> for Some(i) *)

DigitChars == <<"0", "1", "2", "3", "4", "5", "6", "7", "8", "9">>

RECURSIVE Decimal(_)
\* commands.rs line 118: {id} formats the number in decimal
Decimal(id) ==
    IF id < Len(DigitChars)
      THEN <<DigitChars[id + 1]>>
      ELSE Decimal(id \div Len(DigitChars)) \o <<DigitChars[(id % Len(DigitChars)) + 1]>>

\* Path::file_stem: the name up to its last dot, the whole name when it has
\* no dot after its first character
FileStem(name) ==
    LET dots == { i \in 2..Len(name) : name[i] = "." }
    IN IF dots = {} THEN name ELSE SubSeq(name, 1, Max(dots) - 1)

\* commands.rs line 123: PathBuf::set_extension puts the extension after the
\* stem of the file name
SetExtension(name, extension) == FileStem(name) \o <<".">> \o extension

\* commands.rs lines 99-126: the file name within the output directory
output_name(name, id, prefix, extension) ==
    LET pre_suff_name == IF id = <<>>
                           THEN prefix \o name
                           ELSE prefix \o name \o <<"-">> \o Decimal(id[1])
    IN SetExtension(pre_suff_name, extension)

Png  == <<"p", "n", "g">>
Lua  == <<"l", "u", "a">>
Json == <<"j", "s", "o", "n">>

\* spritesheet.rs lines 380-413 and 463-470: the files of the normal path for
\* count sheets, in the order they are written
SheetOutputs(name, count, a) ==
    (IF count = 1
       THEN <<output_name(name, <<>>, a.prefix, Png)>>
       ELSE [idx \in 1..count |-> output_name(name, <<idx - 1>>, a.prefix, Png)])
    \o (IF a.lua THEN <<output_name(name, <<>>, a.prefix, Lua)>> ELSE <<>>)
    \o (IF a.json THEN <<output_name(name, <<>>, a.prefix, Json)>> ELSE <<>>)

\* spritesheet.rs lines 287-321: the files of the split branch for
\* layer_count layers
LayerOutputs(name, layer_count, a) ==
    [idx \in 1..layer_count |-> output_name(name, <<idx - 1>>, a.prefix, Png)]
    \o (IF a.lua THEN <<output_name(name, <<>>, a.prefix, Lua)>> ELSE <<>>)

\* what generate_spritesheet may set out to write for one source
UnitPlans(name, a) ==
    { SheetOutputs(name, n, a) : n \in {1, 2} } \cup { LayerOutputs(name, 1, a) }

Finished(u) == u.state \in {"ok", "empty", "err", "panic"}

ExecResultAllOrNothing(us) ==
    IF \E n \in DOMAIN us : us[n].state = "panic" THEN "panic"
    ELSE IF \E n \in DOMAIN us : us[n].state = "err" THEN "err"
    ELSE "ok"
\* spritesheet.rs lines 170-187: the results of the units are dropped and
\* Ok(()) is returned; the panic of a unit is resumed in the caller
ExecResult(us) ==
    IF \E n \in DOMAIN us : us[n].state = "panic" THEN "panic" ELSE "ok"

\* spritesheet.rs lines 143-168: the output directory and the sources
ExecStart ==
    /\ pc = "exec_start"
    /\ \E dir_ok \in BOOLEAN :
         IF ~dir_ok
           THEN result' = "err" /\ pc' = "done" /\ units' = units
           ELSE IF sources = {}
             THEN result' = "ok" /\ pc' = "done" /\ units' = units
             ELSE /\ units' = [n \in sources |-> [state |-> "waiting", plan |-> <<>>, at |-> 0]]
                  /\ result' = result
                  /\ pc' = "exec_units"
    /\ UNCHANGED <<sources, files, logged>>
    /\ UNCHANGED <<args, loaded, images, shift, frame_sequence, saved, cropv, measurev, layoutv,
                   splitv, iconv, savev>>

\* spritesheet.rs line 172: a worker takes up a source; generate_spritesheet
\* finds no images, fails or panics before it writes, or has files to write
UnitStart(n) ==
    /\ pc = "exec_units"
    /\ units[n].state = "waiting"
    /\ \/ /\ units' = [units EXCEPT ![n].state = "empty"]
          /\ logged' = logged
       \/ /\ units' = [units EXCEPT ![n].state = "err"]
          /\ logged' = logged \cup {n}
       \/ /\ units' = [units EXCEPT ![n].state = "panic"]
          /\ logged' = logged
       \/ /\ \E plan \in UnitPlans(n, args) :
               units' = [units EXCEPT ![n] = [state |-> "running", plan |-> plan, at |-> 0]]
          /\ logged' = logged
    /\ UNCHANGED <<pc, result, sources, files>>
    /\ UNCHANGED <<args, loaded, images, shift, frame_sequence, saved, cropv, measurev, layoutv,
                   splitv, iconv, savev>>

\* the unit writes its next file, or fails at it: the error is logged at
\* spritesheet.rs line 181
UnitWrite(n) ==
    /\ pc = "exec_units"
    /\ units[n].state = "running"
    /\ units[n].at < Len(units[n].plan)
    /\ \/ /\ files' = files \cup {[path |-> units[n].plan[units[n].at + 1], unit |-> n]}
          /\ units' = [units EXCEPT ![n].at = @ + 1]
          /\ logged' = logged
       \/ /\ files' = files
          /\ units' = [units EXCEPT ![n].state = "err"]
          /\ logged' = logged \cup {n}
    /\ UNCHANGED <<pc, result, sources>>
    /\ UNCHANGED <<args, loaded, images, shift, frame_sequence, saved, cropv, measurev, layoutv,
                   splitv, iconv, savev>>

\* spritesheet.rs lines 173-179: generate_spritesheet returns Ok
UnitDone(n) ==
    /\ pc = "exec_units"
    /\ units[n].state = "running"
    /\ units[n].at = Len(units[n].plan)
    /\ units' = [units EXCEPT ![n].state = "ok"]
    /\ UNCHANGED <<pc, result, sources, files, logged>>
    /\ UNCHANGED <<args, loaded, images, shift, frame_sequence, saved, cropv, measurev, layoutv,
                   splitv, iconv, savev>>

\* spritesheet.rs lines 185-187: collect returns when every unit is through;
\* after a panic the units not yet taken up may be dropped
ExecReturn ==
    /\ pc = "exec_units"
    /\ \/ \A n \in sources : Finished(units[n])
       \/ /\ \E n \in sources : units[n].state = "panic"
          /\ \A n \in sources : units[n].state # "running"
    /\ result' = ExecResult(units)
    /\ pc' = "done"
    /\ UNCHANGED <<sources, units, files, logged>>
    /\ UNCHANGED <<args, loaded, images, shift, frame_sequence, saved, cropv, measurev, layoutv,
                   splitv, iconv, savev>>

NextExec ==
    \/ ExecStart
    \/ \E n \in sources : UnitStart(n)
    \/ \E n \in sources : UnitWrite(n)
    \/ \E n \in sources : UnitDone(n)
    \/ ExecReturn

(* The subdirectories of the source directory: up to MaxUnits of them,     *)
(* with plain names, a name that ends like a sheet index, and a name with  *)
(* a dot                                                                   *)

MaxUnits == 2   \* most source directories of one run

SourceNames ==
    { <<"a">>, <<"b">>, <<"a", "-", "0">>, <<"a", ".", "b">> }

Prefixes == { <<>>, <<"p">> }

InitExec ==
    /\ sources \in SubsetsUpTo(SourceNames, MaxUnits)
    /\ \E lua \in BOOLEAN, json \in BOOLEAN, prefix \in Prefixes :
         args = [lua |-> lua, json |-> json, prefix |-> prefix]
    /\ loaded = <<>>
    /\ images = <<>>
    /\ pc = "exec_start"
    /\ result = "none"
    /\ shift = <<0, 0>>
    /\ before = <<>>
    /\ calls = 0
    /\ frame_sequence = <<>>
    /\ sprite_width = 0 /\ sprite_height = 0 /\ sprite_count = 0
    /\ max_cols_per_sheet = 0 /\ max_rows_per_sheet = 0
    /\ max_per_sheet = 0 /\ sheet_count = 0
    /\ cols = 0 /\ rows = 0
    /\ sheet = <<>>
    /\ sheets = <<>>
    /\ placed = <<>>
    /\ frags_x = 0 /\ frags_y = 0
    /\ frag_groups = <<>>
    /\ layers = <<>>
    /\ saved = <<>>
    /\ icon_res = <<>> /\ next_width = 0 /\ next_x = 0 /\ icon_idx = 0 /\ icon = <<>>
    /\ histo = {} /\ palette = <<>> /\ encoded = <<>>
    /\ units = <<>> /\ files = {} /\ logged = {}

SpecExec == InitExec /\ [][NextExec]_vars

----------------------------------------------------------------------------
(* Claims about generate_subframe_sheets, checked under SpecSplit          *)

RECURSIVE SumOver(_, _, _)
\* the sum of f[k] over the k in S
SumOver(f, S, acc) ==
    IF S = {} THEN acc
    ELSE LET k == CHOOSE m \in S : TRUE
         IN  SumOver(f, S \ {k}, acc + f[k])

\* the subframes have been cut
TilesCut == pc \in {"frag_arrange", "split_return"} \/ (pc = "done" /\ layers # <<>>)

\* rectangles a and b share no pixel
Disjoint(a, b) ==
    \/ a.tx + a.width <= b.tx \/ b.tx + b.width <= a.tx
    \/ a.ty + a.height <= b.ty \/ b.ty + b.height <= a.ty

\* C1: whenever generate_subframe_sheets gets as far as cutting the frames,
\* the frags_x * frags_y tile rectangles, in row-major order (index
\* y * frags_x + x), each have width >= 1 and height >= 1, lie inside the
\* frame, are pairwise disjoint and together have the frame's area: they
\* cover [0, sprite_width) x [0, sprite_height) exactly.  Each tile starts
\* where its left neighbour ends and where the tile above it ends.  (For
\* these inputs no subtraction overflows and no tile is empty: the function
\* does not panic.)
C1_TilesCoverFrame ==
    /\ result # "panic"
    /\ TilesCut =>
        /\ Len(frag_groups) = frags_x * frags_y
        /\ \A k \in 1..Len(frag_groups) :
             LET t == frag_groups[k]
                 x == (k - 1) % frags_x
                 y == (k - 1) \div frags_x
             IN  /\ t.width >= 1 /\ t.height >= 1
                 /\ t.tx >= 0 /\ t.tx + t.width <= sprite_width
                 /\ t.ty >= 0 /\ t.ty + t.height <= sprite_height
                 /\ t.tx = (IF x = 0 THEN 0
                            ELSE frag_groups[k - 1].tx + frag_groups[k - 1].width)
                 /\ t.ty = (IF y = 0 THEN 0
                            ELSE frag_groups[k - frags_x].ty + frag_groups[k - frags_x].height)
        /\ \A k, m \in 1..Len(frag_groups) :
             k # m => Disjoint(frag_groups[k], frag_groups[m])
        /\ SumOver([k \in 1..Len(frag_groups) |->
                      frag_groups[k].width * frag_groups[k].height],
                   1..Len(frag_groups), 0)
             = sprite_width * sprite_height

\* a split on both axes whose last column and last row of tiles are smaller
C1_Witness ==
    /\ TilesCut
    /\ frags_x >= 2 /\ frags_y >= 2
    /\ frag_groups[Len(frag_groups)].width < frag_groups[1].width
    /\ frag_groups[Len(frag_groups)].height < frag_groups[1].height

\* C30 (under SpecSplitFair): the fragment-count search loop of
\* generate_subframe_sheets terminates for every sprite_width,
\* sprite_height >= 1 and every sprite_count from 1 to MAX_SIZE * MAX_SIZE,
\* and during the search frags_x never exceeds sprite_width and frags_y
\* never exceeds sprite_height.
C30_SearchTerminates ==
    /\ [](pc = "frag_search" => (frags_x <= sprite_width /\ frags_y <= sprite_height))
    /\ <>(pc # "frag_search")

\* the search ended at fragments of one pixel, for as many sprites as there
\* are pixels on a canvas
C30_Witness ==
    /\ pc # "frag_search"
    /\ sprite_count = MAX_SIZE * MAX_SIZE
    /\ sprite_width >= 2 /\ sprite_height >= 2
    /\ frags_x = sprite_width /\ frags_y = sprite_height

----------------------------------------------------------------------------
(* Claims about the sheet layout, checked under SpecSheet                  *)

NoOverrides == args.max_sheet_size = 0 /\ args.max_sheet_width = 0

\* the sheets have been allocated (only the non-split path allocates them)
Allocated == sheets # <<>>

\* every sprite has been blitted
Arranged == pc \in {"save", "done"} /\ Allocated /\ Len(placed) = sprite_count

capacity == max_cols_per_sheet * max_rows_per_sheet

\* C2: in the non-split path with no max_sheet overrides and a sprite no
\* larger than MAX_SIZE on either axis, every canvas allocated is at most
\* MAX_SIZE pixels wide and at most MAX_SIZE pixels high.
C2_CanvasWithinMaxSize ==
    (Allocated /\ NoOverrides /\ sprite_width <= MAX_SIZE /\ sprite_height <= MAX_SIZE) =>
        \A i \in 1..Len(sheets) :
            sheets[i].width <= MAX_SIZE /\ sheets[i].height <= MAX_SIZE

\* C3: whenever capacity = max_cols * max_rows <= sprite_count, the number of
\* canvases is ceil(sprite_count / capacity), every canvas but the last is a
\* full max_cols x max_rows grid holding exactly capacity frames, and the
\* last holds last_count = sprite_count - capacity * (canvases - 1) frames on
\* a canvas of full width and exactly ceil(last_count / max_cols) rows.
C3_MaximalGrid ==
    (Arranged /\ capacity <= sprite_count) =>
        LET n == Len(sheets)
            last_count == sprite_count - capacity * (n - 1)
            on(i) == Cardinality({ k \in 1..Len(placed) : placed[k].sheet_idx = i - 1 })
        IN  /\ (n - 1) * capacity < sprite_count
            /\ sprite_count <= n * capacity
            /\ \A i \in 1..(n - 1) :
                 /\ sheets[i].width = max_cols_per_sheet * sprite_width
                 /\ sheets[i].height = max_rows_per_sheet * sprite_height
                 /\ on(i) = capacity
            /\ on(n) = last_count
            /\ sheets[n].width = max_cols_per_sheet * sprite_width
            /\ \E r \in 1..max_rows_per_sheet :
                 /\ sheets[n].height = r * sprite_height
                 /\ (r - 1) * max_cols_per_sheet < last_count
                 /\ last_count <= r * max_cols_per_sheet

\* 40 frames of a quarter of MAX_SIZE on each side: three canvases, two full
\* 4 x 4 grids and a last one of 8 frames in 2 rows
C3_Witness ==
    /\ Arranged /\ result = "ok"
    /\ sprite_width = 2048 /\ sprite_height = 2048 /\ sprite_count = 40
    /\ Len(sheets) = 3
    /\ sheets[1].height = 8192 /\ sheets[2].height = 8192
    /\ sheets[3].height = 2 * 2048 /\ sheets[3].width = 8192
    /\ placed[40] = [sheet_idx |-> 2, row |-> 3, line |-> 1, x |-> 3 * 2048, y |-> 2048]

\* the single-sheet grid has been fixed
SingleSheet == Allocated /\ capacity > sprite_count

\* C4: in the single-canvas regime (capacity > sprite_count) the final grid
\* has a cell for every frame, cols * rows >= sprite_count, and no fully
\* empty trailing row, cols * (rows - 1) < sprite_count.  Ten sprites of
\* 64 x 64, and ten of a quarter of MAX_SIZE on each side (capacity 16), take
\* this path.
C4_SingleCanvasGrid ==
    /\ SingleSheet =>
         /\ sheet.cols_per_sheet * sheet.rows_per_sheet >= sprite_count
         /\ sheet.cols_per_sheet * (sheet.rows_per_sheet - 1) < sprite_count
         /\ Len(sheets) = 1
         /\ sheets[1].width = sheet.cols_per_sheet * sprite_width
         /\ sheets[1].height = sheet.rows_per_sheet * sprite_height
    /\ ( /\ Allocated /\ NoOverrides /\ sprite_count = 10
         /\ sprite_width = sprite_height
         /\ sprite_width \in {64, MAX_SIZE \div 4} ) =>
         /\ capacity > 10
         /\ sprite_width = MAX_SIZE \div 4 => capacity = 16
         /\ cols >= 1 /\ rows >= 1
         /\ sheet.cols_per_sheet = cols /\ sheet.rows_per_sheet = rows
         /\ cols * rows >= 10 /\ cols * (rows - 1) < 10

\* a grid grown to 2 x 3 for 4 sprites and trimmed to 2 x 2
C4_Witness ==
    /\ SingleSheet /\ result = "ok"
    /\ sprite_width = 3 /\ sprite_height = 1 /\ sprite_count = 4
    /\ sheet.cols_per_sheet = 2 /\ sheet.rows_per_sheet = 2

\* the greedy growth from c x r: a column when c < cap and c * w <= r * h,
\* a row otherwise, until every sprite has a cell
RECURSIVE Greedy(_, _, _, _, _, _)
Greedy(c, r, count, w, h, cap) ==
    IF c * r >= count THEN <<c, r>>
    ELSE IF c < cap /\ c * w <= r * h
    THEN Greedy(c + 1, r, count, w, h, cap)
    ELSE Greedy(c, r + 1, count, w, h, cap)

\* the greedy from 1 x 1, less floor((cols * rows - count) / cols) rows
GreedyGrid(count, w, h, cap) ==
    LET g == Greedy(1, 1, count, w, h, cap)
    IN  <<g[1], g[2] - ((g[1] * g[2] - count) \div g[1])>>

\* C5 as stated: the single-canvas grid is that of the greedy that adds a
\* column whenever cols * width <= rows * height (no limit on the columns:
\* a grid never needs more columns than there are sprites).
C5_GreedyUnbounded ==
    SingleSheet =>
        <<sheet.cols_per_sheet, sheet.rows_per_sheet>>
            = GreedyGrid(sprite_count, sprite_width, sprite_height, sprite_count + 1)

\* C5, amended: the single-canvas grid is that of the greedy that adds a
\* column when cols < max_cols and cols * width <= rows * height, and a row
\* otherwise, then drops floor((cols * rows - sprite_count) / cols) rows.
C5_GreedyBounded ==
    SingleSheet =>
        <<sheet.cols_per_sheet, sheet.rows_per_sheet>>
            = GreedyGrid(sprite_count, sprite_width, sprite_height, max_cols_per_sheet)

\* a grid that stopped growing columns at max_cols although the canvas was
\* still narrower than high
C5_Witness ==
    /\ SingleSheet /\ result = "ok"
    /\ sheet.cols_per_sheet = max_cols_per_sheet
    /\ sheet.cols_per_sheet * sprite_width < sheet.rows_per_sheet * sprite_height
    /\ <<sheet.cols_per_sheet, sheet.rows_per_sheet>>
         # GreedyGrid(sprite_count, sprite_width, sprite_height, sprite_count + 1)

\* C6: frame i is blitted onto canvas i / capacity at column
\* (i % capacity) % cols and row (i % capacity) / cols; no two frames share
\* a (canvas, column, row) cell; and every frame's cell lies inside the
\* pixels of its canvas, the height-trimmed last canvas included.
C6_Placement ==
    Arranged =>
        /\ \A k \in 1..Len(placed) :
             LET i == k - 1
                 p == placed[k]
             IN  /\ p.sheet_idx = i \div capacity
                 /\ p.row = (i % capacity) % sheet.cols_per_sheet
                 /\ p.line = (i % capacity) \div sheet.cols_per_sheet
                 /\ p.sheet_idx + 1 \in 1..Len(sheets)
                 /\ p.x = p.row * sprite_width /\ p.y = p.line * sprite_height
                 /\ p.x + sprite_width <= sheets[p.sheet_idx + 1].width
                 /\ p.y + sprite_height <= sheets[p.sheet_idx + 1].height
        /\ \A k, m \in 1..Len(placed) :
             k # m => <<placed[k].sheet_idx, placed[k].row, placed[k].line>>
                        # <<placed[m].sheet_idx, placed[m].row, placed[m].line>>

\* several canvases, the last one trimmed, with a frame in its last row and
\* a second column in use
C6_Witness ==
    /\ Arranged /\ result = "ok"
    /\ Len(sheets) >= 2
    /\ sheets[Len(sheets)].height < sheets[1].height
    /\ placed[Len(placed)].sheet_idx = Len(sheets) - 1
    /\ placed[Len(placed)].line >= 1
    /\ placed[Len(placed)].row >= 1

----------------------------------------------------------------------------
(* Claims about generate_spritesheet as a whole, checked under SpecPipe    *)

\* some loaded frame differs in width or height from the first one
Mismatched ==
    \E i \in 1..Len(loaded) :
        loaded[i].width # loaded[1].width \/ loaded[i].height # loaded[1].height

\* C7: for every frame set with a frame whose width or height differs from
\* the first frame's, generate_spritesheet ends in a fatal size-mismatch
\* error (NotSameSize or ImagesNotSameSize) and saves no canvas, whatever
\* no_crop and single_sheet_split_mode are.
C7_MismatchIsFatal ==
    /\ Mismatched => saved = <<>>
    /\ (Mismatched /\ pc = "done") => result \in {"NotSameSize", "ImagesNotSameSize"}

----------------------------------------------------------------------------
(* Claims about crop_images, checked under SpecCrop                        *)

\* the coordinates of the pixels of the frames handed to the last call whose
\* alpha is strictly greater than the threshold
BeforeVisible ==
    UNION { { <<p[1], p[2]>> : p \in { q \in before[i].px : q[3] > args.crop_alpha } } :
            i \in 1..Len(before) }

\* C8: when crop_images succeeds, every frame is cropped to the rectangle
\* (min_x, min_y, max_x, max_y) of the coordinates of all pixels of all frames
\* with alpha strictly greater than alpha_limit: every frame has the size of
\* that rectangle and shows exactly the pixels the original had inside it.
C8_CropRectangle ==
    (calls >= 1 /\ result = "ok") =>
        /\ BeforeVisible # {}
        /\ Len(images) = Len(before)
        /\ LET lo_x == Min({ c[1] : c \in BeforeVisible })
               hi_x == Max({ c[1] : c \in BeforeVisible })
               lo_y == Min({ c[2] : c \in BeforeVisible })
               hi_y == Max({ c[2] : c \in BeforeVisible })
           IN  \A i \in 1..Len(images) :
                 /\ images[i].width = hi_x - lo_x + 1
                 /\ images[i].height = hi_y - lo_y + 1
                 /\ \A p \in images[i].px :
                       p[1] \in 0..(hi_x - lo_x) /\ p[2] \in 0..(hi_y - lo_y)
                 /\ \A x \in 0..(hi_x - lo_x), y \in 0..(hi_y - lo_y) :
                       Alpha(images[i], x, y) = Alpha(before[i], x + lo_x, y + lo_y)

\* a successful call that cropped two frames, one of them without any visible
\* pixel, to a rectangle that neither frame's own pixels give alone
C8_Witness ==
    /\ calls = 1 /\ result = "ok"
    /\ Len(before) = 2
    /\ before[2].px = {}
    /\ images[1].width < before[1].width
    /\ images[2].width = images[1].width
    /\ images[1].width > 1

\* C9: on a non-empty uniform frame set without any pixel of alpha greater
\* than alpha_limit, crop_images returns AllImagesEmpty and leaves no
\* zero-sized image.
C9_AllEmptyFails ==
    (calls >= 1 /\ BeforeVisible = {}) =>
        /\ result = "AllImagesEmpty"
        /\ \A i \in 1..Len(images) : images[i].width >= 1 /\ images[i].height >= 1

\* a call on frames whose only lit pixels are at the threshold, not above it
C9_Witness ==
    /\ calls = 1 /\ BeforeVisible = {}
    /\ \E i \in 1..Len(before) : \E p \in before[i].px : p[1] > 0 /\ p[2] > 0
    /\ result = "AllImagesEmpty"

\* C10: crop idempotence: calling crop_images again with the same threshold
\* on the frames a successful call left succeeds, returns shift (0, 0) and
\* leaves every frame unchanged.  (The second call is only made after a
\* successful first one.)
C10_CropIdempotent ==
    (calls = 2) => (result = "ok" /\ shift = <<0, 0>> /\ images = before)

\* some frame handed to the last call has a visible pixel at (0, 0) and some
\* frame has one at (w - 1, h - 1)
CornersVisible ==
    /\ before # <<>>
    /\ <<0, 0>> \in BeforeVisible
    /\ <<before[1].width - 1, before[1].height - 1>> \in BeforeVisible

\* C11: for every uniform frame set of size w x h, w, h >= 1, in which some
\* frame has a visible pixel at (0, 0) and some frame has one at
\* (w - 1, h - 1), crop_images succeeds, returns shift (0, 0) and resizes no
\* frame.
C11_FullCanvasNoCrop ==
    (calls >= 1 /\ CornersVisible) =>
        (result = "ok" /\ shift = <<0, 0>> /\ images = before)

\* the last call cropped: it succeeded and changed the size of the frames
Cropped ==
    /\ calls >= 1 /\ result = "ok"
    /\ (images[1].width # before[1].width \/ images[1].height # before[1].height)

\* C12: when crop_images crops, the returned shift satisfies, per axis,
\* 2 * shift = 2 * min - (original_size - cropped_size), where min is the
\* least visible coordinate and cropped_size = max - min + 1 the size of the
\* frames it leaves; that is the displacement of the centre of the cropped
\* rectangle, min + cropped_size / 2, from the centre of the original
\* canvas, original_size / 2.  original_size - cropped_size is never
\* negative.
C12_ShiftIsCentreDisplacement ==
    Cropped =>
        LET lo_x == Min({ c[1] : c \in BeforeVisible })
            hi_x == Max({ c[1] : c \in BeforeVisible })
            lo_y == Min({ c[2] : c \in BeforeVisible })
            hi_y == Max({ c[2] : c \in BeforeVisible })
            w == before[1].width
            h == before[1].height
            cw == images[1].width
            ch == images[1].height
        IN  /\ cw = hi_x - lo_x + 1 /\ ch = hi_y - lo_y + 1
            /\ w - cw >= 0 /\ h - ch >= 0
            /\ shift[1] = 2 * lo_x - (w - cw)
            /\ shift[2] = 2 * lo_y - (h - ch)
            /\ shift[1] = (2 * lo_x + cw) - w
            /\ shift[2] = (2 * lo_y + ch) - h

\* a crop that cuts more on the left than on the right, by an odd number of
\* columns: the shift is half a pixel to the right
C12_Witness ==
    /\ Cropped
    /\ before[1].width = 3 /\ images[1].width = 2
    /\ shift[1] = 1
    /\ Min({ c[1] : c \in BeforeVisible }) = 1

----------------------------------------------------------------------------
(* Claims about dedup_empty_frames, checked under SpecDedup                *)

\* frame i handed to the last call is blank: every pixel has alpha 0
Blank(i) == \A p \in before[i].px : p[3] = 0

Blanks == { i \in 1..Len(before) : Blank(i) }

\* the sequence the last call returned
Sequence == frame_sequence[1]

\* C13: dedup_empty_frames on N frames of which B >= 1 are blank returns
\* N - (B - 1) frames and a sequence of length N in which every blank frame
\* maps to the output index of the first blank frame, and the non-blank
\* frames map to pairwise distinct indices that strictly increase with the
\* original index; with B = 0 the output is the input and the sequence is
\* 0..N-1.  Every sequence entry is a valid index below the output length.
C13_DedupShape ==
    (calls >= 1) =>
        LET N == Len(before)
            B == Cardinality(Blanks)
        IN  /\ Len(Sequence) = N
            /\ \A i \in 1..N : Sequence[i] \in 0..(Len(images) - 1)
            /\ \A i, j \in (1..N) \ Blanks : i < j => Sequence[i] < Sequence[j]
            /\ B >= 1 =>
                 /\ Len(images) = N - (B - 1)
                 /\ \A i \in Blanks : Sequence[i] = Min(Blanks) - 1
            /\ B = 0 =>
                 /\ images = before
                 /\ Sequence = [i \in 1..N |-> i - 1]

\* the spec's example: 8 frames of which frames 2, 5 and 7 are blank give 6
\* frames, and the three blank frames share one index
C13_Witness ==
    /\ calls = 1
    /\ Len(before) = 8 /\ Blanks = {3, 6, 8}
    /\ Len(images) = 6
    /\ Sequence = <<0, 1, 2, 3, 4, 2, 5, 2>>

\* the k-th smallest element of a set of numbers
Kth(S, k) == CHOOSE i \in S : Cardinality({ j \in S : j < i }) = k - 1

\* the original indices of the frames a deduplication keeps: the non-blank
\* frames and the first blank one
Kept == ((1..Len(before)) \ Blanks) \cup (IF Blanks = {} THEN {} ELSE { Min(Blanks) })

\* C14: order is preserved through deduplication: the frames returned are a
\* subsequence of the input in the original order, and for every original
\* index i the frame output[sequence[i]] is the original frame i when that
\* frame is non-blank and a fully transparent frame when it is blank:
\* replaying the output through the sequence reconstructs the animation.
C14_DedupKeepsOrder ==
    (calls >= 1) =>
        /\ Len(images) = Cardinality(Kept)
        /\ \A k \in 1..Len(images) : images[k] = before[Kth(Kept, k)]
        /\ Len(Sequence) = Len(before)
        /\ \A i \in 1..Len(before) :
             /\ Sequence[i] + 1 \in 1..Len(images)
             /\ IF Blank(i)
                THEN \A p \in images[Sequence[i] + 1].px : p[3] = 0
                ELSE images[Sequence[i] + 1] = before[i]

\* a blank frame first, merged with a later one, and different non-blank
\* frames on both sides of the later one
C14_Witness ==
    /\ calls = 1
    /\ Len(before) >= 4
    /\ Blank(1) /\ Blank(3) /\ ~Blank(2) /\ ~Blank(4)
    /\ before[2] # before[4]
    /\ Len(images) = Len(before) - 1
    /\ images[3] = before[4]

\* C15: dedup idempotence: applying dedup_empty_frames to the frame list a
\* previous dedup_empty_frames returned returns the same frame list and the
\* identity sequence 0..M-1.
C15_DedupIdempotent ==
    (calls >= 2) =>
        /\ images = before
        /\ Sequence = [i \in 1..Len(before) |-> i - 1]

\* a second call on the result of a first call that merged blank frames
C15_Witness ==
    /\ calls = 2
    /\ Cardinality(Blanks) = 1
    /\ Len(images) >= 3
    /\ images = before

----------------------------------------------------------------------------
(* Claims about generate_mipmap_icon, checked under SpecIcon               *)

\* the MipIcon invariant on the frames as loaded: square, each side exactly
\* half of its predecessor's, which divides evenly, and no more than
\* floor(log2(base_side)) of them
ValidChain ==
    /\ Len(loaded) >= 1
    /\ \A k \in 1..Len(loaded) : loaded[k].width = loaded[k].height
    /\ \A k \in 2..Len(loaded) : 2 * loaded[k].width = loaded[k - 1].width
    /\ Len(loaded) <= FloorLog2(loaded[1].width)

RECURSIVE WidthSum(_, _)
\* the sum of the widths of the first k frames
WidthSum(imgs, k) == IF k = 0 THEN 0 ELSE imgs[k].width + WidthSum(imgs, k - 1)

\* C16: for every list of n >= 1 square frames that satisfies the MipIcon
\* invariant, generate_mipmap_icon succeeds and the strip it encodes has
\* the height of the base and the sum of all level widths as its width,
\* with level k placed at x = the sum of the widths of levels 0..k-1
\* ([64, 32, 16] gives 112 x 64).
C16_ValidChainSucceeds ==
    (ValidChain /\ pc = "done") =>
        /\ result = "ok"
        /\ icon # <<>>
        /\ icon.height = loaded[1].height
        /\ icon.width = WidthSum(loaded, Len(loaded))
        /\ Len(icon.levels) = Len(loaded)
        /\ \A k \in 1..Len(loaded) :
             /\ icon.levels[k].x = WidthSum(loaded, k - 1)
             /\ icon.levels[k].y = 0
             /\ icon.levels[k].width = loaded[k].width

\* the frames are in descending order of width and are the loaded ones
SortedFromLoaded ==
    /\ Len(images) = Len(loaded)
    /\ \A k \in 2..Len(images) : images[k - 1].width >= images[k].width
    /\ \A f \in IconFrames :
         Cardinality({ k \in 1..Len(images) : images[k] = f })
           = Cardinality({ k \in 1..Len(loaded) : loaded[k] = f })

RECURSIVE ScanStated(_, _, _)
\* the scan of the levels from level k on, as stated: odd expected width,
\* then a width that differs from the expected one
ScanStated(imgs, k, expected) ==
    IF k > Len(imgs) THEN "ok"
    ELSE IF expected % 2 # 0 THEN "OddImageSizeForMipLevel"
    ELSE IF imgs[k].width # expected THEN "WrongImageSize"
    ELSE ScanStated(imgs, k + 1, expected \div 2)

RECURSIVE ScanSquare(_, _, _)
\* the same scan with a level that is not square reported between the two
ScanSquare(imgs, k, expected) ==
    IF k > Len(imgs) THEN "ok"
    ELSE IF expected % 2 # 0 THEN "OddImageSizeForMipLevel"
    ELSE IF imgs[k].width # imgs[k].height THEN "ImageNotSquare"
    ELSE IF imgs[k].width # expected THEN "WrongImageSize"
    ELSE ScanSquare(imgs, k + 1, expected \div 2)

\* the classification of sorted frames, given the result of the scan
Classified(imgs, scan) ==
    IF imgs[1].width # imgs[1].height THEN "ImageNotSquare"
    ELSE IF Len(imgs) > FloorLog2(imgs[1].width) THEN "TooManyImages"
    ELSE scan

IconErrors ==
    { "ImageNotSquare", "TooManyImages", "OddImageSizeForMipLevel", "WrongImageSize" }

\* C17 as stated: on frames sorted descending by width the result is
\* ImageNotSquare if the largest frame is not square; otherwise
\* TooManyImages if the frame count exceeds floor(log2(base_width));
\* otherwise, scanning the levels in order, OddImageSizeForMipLevel at a
\* level whose expected width is not divisible by two and WrongImageSize at
\* a level whose width differs from the expected width base_width / 2^level;
\* in every such case no output image or metadata file is written.
C17_ClassifiedAsStated ==
    (pc = "done" /\ loaded # <<>>) =>
        /\ SortedFromLoaded
        /\ result = Classified(images, ScanStated(images, 1, images[1].width))
        /\ result \in IconErrors => (saved = <<>> /\ icon = <<>>)

\* C17 as amended: the same, and at each level of the scan a frame that is
\* not square gives ImageNotSquare, after the test for an odd expected
\* width and before the comparison of the widths.
C17_ClassifiedWithSquareTest ==
    (pc = "done" /\ loaded # <<>>) =>
        /\ SortedFromLoaded
        /\ result = Classified(images, ScanSquare(images, 1, images[1].width))
        /\ result \in IconErrors => (saved = <<>> /\ icon = <<>>)

\* frames loaded in ascending order whose third level has the wrong width
C17_Witness ==
    /\ pc = "done"
    /\ Len(loaded) = 3
    /\ loaded[1].width = 15 /\ loaded[2].width = 32 /\ loaded[3].width = 64
    /\ \A k \in 1..3 : loaded[k].width = loaded[k].height
    /\ result = "WrongImageSize"
    /\ saved = <<>>

\* C18: when generate_mipmap_icon fails with the odd-size or the wrong-size
\* error on a chain whose later level is invalid ([64, 32, 15]), the
\* failure is raised before any level has been blitted into the output
\* canvas: the validation of all levels precedes the first blit.
C18_FailsBeforeFirstBlit ==
    (result \in { "OddImageSizeForMipLevel", "WrongImageSize" }) =>
        icon_res.levels = <<>>

----------------------------------------------------------------------------
(* Claims about frames that need splitting                                 *)

\* the frames are wider or higher than a canvas may be
Oversized ==
    /\ loaded # <<>>
    /\ (loaded[1].width > MAX_SIZE \/ loaded[1].height > MAX_SIZE)

\* C19 (under SpecSheet): with single_sheet_split_mode enabled and uniform
\* frames whose width or height exceeds MAX_SIZE, so that not even one frame
\* fits on a canvas, generate_spritesheet computes its canvas count, invokes
\* the subframe splitter and completes with one layer per tile position
\* instead of failing.
C19_OversizedFrameIsSplit ==
    (args.single_sheet_split_mode /\ Oversized /\ pc = "done") =>
        /\ result = "ok"
        /\ sheet_count >= 1
        /\ frags_x * frags_y >= 2
        /\ Len(layers) = frags_x * frags_y
        /\ Len(saved) = Len(layers)

\* fragments of a frame cut into a columns and b rows fit one canvas
\* sprite_count times
FitsCut(a, b) ==
    (MAX_SIZE \div div_ceil(sprite_width, a)) * (MAX_SIZE \div div_ceil(sprite_height, b))
        >= sprite_count

\* C20 (under SpecSplit): the (frags_x, frags_y) chosen by
\* generate_subframe_sheets is minimal: among all pairs (a, b) >= (1, 1)
\* whose fragment size (ceil(W / a), ceil(H / b)) satisfies
\* (MAX_SIZE / frag_width) * (MAX_SIZE / frag_height) >= sprite_count, no
\* pair has a smaller fragment count a * b than the chosen one.
C20_FragmentCountMinimal ==
    TilesCut =>
        /\ FitsCut(frags_x, frags_y)
        /\ \A a \in 1..(frags_x * frags_y - 1) :
             \A b \in 1..((frags_x * frags_y - 1) \div a) : ~FitsCut(a, b)

\* C29: crop_images returns AllImagesEmpty only when no frame has a visible
\* pixel: for every non-empty uniform frame set in which at least one pixel
\* has alpha greater than alpha_limit, wherever that pixel lies (also when
\* all visible pixels are in column 0 or in row 0, or the frames are 1 pixel
\* wide or high), crop_images succeeds.
C29_VisiblePixelSucceeds ==
    (calls >= 1 /\ BeforeVisible # {}) => result = "ok"

----------------------------------------------------------------------------
(* Claims about the layers of split mode, checked under SpecSheet          *)

\* generate_subframe_sheets has returned its layers
LayersMade == layers # <<>>

\* the grid the layout of generate_spritesheet gives count sprites of
\* w x h pixels without overrides: the maximal grid when they fill a sheet,
\* the grown and trimmed grid otherwise
EngineGrid(count, w, h) ==
    LET max_cols == MAX_SIZE \div w
        max_rows == MAX_SIZE \div h
    IN  IF max_cols * max_rows <= count
        THEN <<max_cols, max_rows>>
        ELSE GreedyGrid(count, w, h, max_cols)

\* C21: for every layer produced by generate_subframe_sheets, the grid
\* (cols, rows) and the sheet size used to pack that tile's fragments equal
\* what the layout of generate_spritesheet computes for the same
\* sprite_count, tile width, tile height and MAX_SIZE.
C21_LayerUsesSheetLayout ==
    LayersMade =>
        \A k \in 1..Len(layers) :
            LET l == layers[k]
                g == EngineGrid(sprite_count, l.width, l.height)
            IN  /\ <<l.cols, l.rows>> = g
                /\ l.sheet_width = g[1] * l.width
                /\ l.sheet_height = g[2] * l.height

\* C22: for every layer produced by generate_subframe_sheets, all
\* sprite_count fragments of that tile are placed on exactly one sheet, in
\* original frame order (fragment i at column i % cols, row i / cols), in
\* pairwise distinct cells that lie inside the sheet, and the sheet's pixel
\* width and height are both <= MAX_SIZE.
C22_LayerPlacement ==
    LayersMade =>
        /\ pc = "done" => Len(SelectSeq(saved, LAMBDA f : f[2] = "png")) = Len(layers)
        /\ \A k \in 1..Len(layers) :
             LET l == layers[k]
             IN  /\ Len(l.placed) = sprite_count
                 /\ l.sheet_width <= MAX_SIZE /\ l.sheet_height <= MAX_SIZE
                 /\ \A m \in 1..Len(l.placed) :
                      LET p == l.placed[m]
                      IN  /\ p.row = (m - 1) % l.cols
                          /\ p.line = (m - 1) \div l.cols
                          /\ p.x = p.row * l.width /\ p.y = p.line * l.height
                          /\ p.x + l.width <= l.sheet_width
                          /\ p.y + l.height <= l.sheet_height
                 /\ Cardinality({ <<l.placed[m].row, l.placed[m].line>> :
                                    m \in 1..Len(l.placed) }) = Len(l.placed)

\* four layers of 40 fragments each, packed on several lines, the last line
\* of a layer not full
C22_Witness ==
    /\ LayersMade /\ pc = "done" /\ result = "ok"
    /\ Len(layers) = 4
    /\ sprite_count = 40
    /\ layers[1].rows >= 2
    /\ layers[1].cols * layers[1].rows > sprite_count
    /\ layers[4].placed[40].line = layers[4].rows - 1

\* the grid is within the overrides: at most max_sheet_size lines, at most
\* max_sheet_width columns, or max_sheet_size columns without a width
WithinOverrides(c, r) ==
    /\ args.max_sheet_size > 0 =>
         /\ r <= args.max_sheet_size
         /\ c <= (IF args.max_sheet_width > 0 THEN args.max_sheet_width
                  ELSE args.max_sheet_size)
    /\ (args.max_sheet_size = 0 /\ args.max_sheet_width > 0) =>
         c <= args.max_sheet_width

\* C26: with max_sheet_size = s > 0 every sheet emitted has at most s rows
\* and at most s columns (at most max_sheet_width columns when that is also
\* non-zero); with only max_sheet_width = w > 0 every sheet has at most w
\* columns.  This holds for the maximal grid, for the grown grid of a single
\* canvas and for the layers of split mode.
C26_OverridesBoundEverySheet ==
    /\ Allocated => WithinOverrides(sheet.cols_per_sheet, sheet.rows_per_sheet)
    /\ LayersMade =>
         \A k \in 1..Len(layers) : WithinOverrides(layers[k].cols, layers[k].rows)

----------------------------------------------------------------------------
(* Claims about the files generate_spritesheet writes, checked under       *)
(* SpecPipe                                                                *)

\* the positions in saved of the files with this extension
SavedAs(ext) == { k \in 1..Len(saved) : saved[k][2] = ext }

\* C27: for every successfully processed directory, generate_spritesheet
\* writes the .lua metadata file exactly when the lua flag is set and the
\* .json metadata file exactly when the json flag is set, in the normal path
\* and in split mode alike; metadata is written only after all canvases of
\* the unit were saved.
C27_MetadataFollowsFlags ==
    (pc = "done" /\ result = "ok") =>
        /\ Cardinality(SavedAs("lua")) = (IF args.lua THEN 1 ELSE 0)
        /\ Cardinality(SavedAs("json")) = (IF args.json THEN 1 ELSE 0)
        /\ SavedAs("png") # {}
        /\ \A k \in SavedAs("png"), m \in SavedAs("lua") \cup SavedAs("json") : k < m

----------------------------------------------------------------------------
(* Claims about generate_gif, checked under SpecGif                        *)

\* the pixel loop has run over the loaded frames
GifCleared == pc \in {"gif_encode", "done"} /\ images # <<>>

\* C28: once the pixel loop has run, a pixel is (0,0,0,0) if its alpha was
\* at most the alpha_threshold of the arguments, and is unchanged otherwise
C28_ClearsByThreshold ==
    GifCleared =>
        \A i \in 1..Len(images) : \A p \in 1..Len(images[i]) :
            images[i][p] = ClearPixelByThreshold(loaded[i][p], args)

----------------------------------------------------------------------------
(* Claims about save_sheets, checked under SpecSave                        *)

RECURSIVE CountsUpTo(_, _)
\* the pixels of colour c on the first n sheets
CountsUpTo(n, c) == IF n = 0 THEN 0 ELSE CountsUpTo(n - 1, c) + sheets[n].counts[c]

\* the palette of the whole group
GroupPalette == { c \in Colours : CountsUpTo(Len(sheets), c) > 0 }

\* C25: with lossy and group set and more than one sheet, when the first
\* sheet is about to be remapped and from then on the histogram holds every
\* sheet of the group and the shared palette is computed from it; a failure
\* while accumulating or quantizing leaves no file; every file is encoded
\* with that one palette, and a successful call has encoded every sheet
C25_SharedPaletteFirst ==
    Grouped =>
        /\ (pc = "save_encode" \/ encoded # <<>>) =>
              /\ histo.added = Len(sheets)
              /\ \A c \in Colours : histo.counts[c] = CountsUpTo(Len(sheets), c)
              /\ palette = <<GroupPalette>>
        /\ (result = "err" /\ palette = <<>>) => encoded = <<>>
        /\ \A k \in 1..Len(encoded) :
              /\ encoded[k].path = sheets[k].path
              /\ encoded[k].palette = GroupPalette
              /\ encoded[k].colors = Quantize(sheets[k].counts)
        /\ result = "ok" => Len(encoded) = Len(sheets)

\* three sheets of different colours were saved as a group
C25_Witness ==
    /\ Grouped
    /\ result = "ok"
    /\ Len(sheets) = MaxSaveSheets
    /\ Len(encoded) = Len(sheets)
    /\ \A i, j \in 1..Len(sheets) : i # j => sheets[i].counts # sheets[j].counts
    /\ Quantize(sheets[1].counts) # GroupPalette

----------------------------------------------------------------------------
(* Claims about SpritesheetArgs::execute, checked under SpecExec           *)

\* execute has returned from the parallel pass and no unit panicked
Returned ==
    /\ pc = "done"
    /\ units # <<>>
    /\ \A n \in sources : units[n].state # "panic"

\* the paths that this unit has written
WrittenBy(n) == { f.path : f \in { g \in files : g.unit = n } }

\* C23: when execute returns from a pass in which some units returned an
\* error, every unit has run to its end, every unit that did not fail has
\* written each of its outputs, exactly the failed units are logged, and the
\* result is Ok(())
C23_PartialFailure ==
    Returned =>
        /\ result = "ok"
        /\ \A n \in sources :
              /\ Finished(units[n])
              /\ units[n].state = "ok" =>
                    /\ units[n].at = Len(units[n].plan)
                    /\ \A k \in 1..Len(units[n].plan) : units[n].plan[k] \in WrittenBy(n)
              /\ units[n].state = "err" <=> n \in logged

\* one unit failed after its first file, the other wrote all of its files
C23_Witness ==
    /\ Returned
    /\ \E m, n \in sources :
         /\ units[m].state = "err" /\ units[m].at = 1
         /\ units[n].state = "ok" /\ Len(units[n].plan) >= 3

\* C24: no path is written by two different units of one run
C24_OutputPathsDisjoint ==
    \A f, g \in files : f.path = g.path => f.unit = g.unit

====
